---- MODULE Spec2Model ----
(***************************************************************************)
(* A model of the verification-page generator (generate_verifications.py   *)
(* and its older copy scripts/generate_verifications.py): the filename     *)
(* codec id_to_filename, the incremental emitter write_if_changed and the  *)
(* build pipeline main().                                                  *)
(*                                                                         *)
(* Text is modelled as a sequence of code points and a file's on-disk      *)
(* content as a sequence of bytes, both sequences of naturals, so that     *)
(* encoding, decoding and newline translation are computed, not assumed.   *)
(***************************************************************************)
EXTENDS Integers, Sequences, FiniteSets, TLC

VARIABLES
    \* --- filename codec: one call of id_to_filename per implementation ---
    reg_id,         \* the id handed to id_to_filename
    other_id,       \* a second id, for the comparison of two tokens
    token,          \* generate_verifications.id_to_filename(reg_id)
    other_token,    \* generate_verifications.id_to_filename(other_id)
    scripts_token,  \* scripts/generate_verifications.id_to_filename(reg_id)
    cpc,            \* "input" | "encoded"
    \* --- incremental emitter: one call of write_if_changed(path, content) ---
    e_impl,         \* "main": generate_verifications.py, "scripts": scripts/ copy
    e_content,      \* the new content (text)
    e_file,         \* the destination: [present, bytes, readable]
    e_file0,        \* the destination as it was when the call started
    e_parent,       \* whether the destination's parent directory exists
    e_writable,     \* whether the process may create and write under the parent
    e_pc,           \* the call's position
    e_ret,          \* "none" | "True" | "False" | "raised"
    e_console,      \* what the call printed, in order
    e_observed,     \* what a concurrent reader of the path last saw
    \* --- the build: runs of main() over one output directory ---
    args,           \* [clean, limit, ids, master_only, no_static]
    pil_available,  \* PIL_AVAILABLE
    reg_json,       \* registrants.json: [is_file, data]
    template_file,  \* whether template.html is a file
    out_dir_exists, \* whether the output directory exists
    out_files,      \* the files of the output directory: path -> file
    pc,             \* the position of main()
    run,            \* the number of the current run
    all_registrants,\* main's all_registrants
    registrants,    \* main's registrants (the filtered working set)
    entry_i,        \* the position of the per-registrant loop
    files_written,  \* main's files_written
    files_unchanged,\* main's files_unchanged
    written_paths,  \* the paths this run has written to, in order
    skip_warnings,  \* the "Skipping entry without registration_id" warnings printed
    history,        \* one record for each run that has ended
    \* --- referral resolution for the last registrant of a working set ---
    working_set,    \* the registrants the indexes are built from
    referer,        \* _resolve_referer's answer: a position of working_set, 0 for None
    referred_html,  \* _build_ref_section's answer for the page
    ref_cell,       \* main's ref_cells entry for the master list
    scripts_ref_cell, \* the same entry in scripts/generate_verifications.py
    rpc,            \* "start", "done" or "idle"
    \* --- make_csv.py: one run ---
    csv_input,      \* the input file: [is_file, data]
    csv_rows,       \* main's rows
    csv_output,     \* the lines of the output file, or NoCsv
    csv_pc,         \* the position of main()
    csv_status,     \* the exit status, -1 while running
    \* --- two instances of the generator at once ---
    c_data,         \* registrants.json, read by both
    c_disk,         \* the file system: output directory -> its files
    c_disk0,        \* the file system before either instance started
    c_inst          \* each instance's arguments, position and locals

codecVars == <<reg_id, other_id, token, other_token, scripts_token, cpc>>
emitVars == <<e_impl, e_content, e_file, e_file0, e_parent, e_writable, e_pc,
              e_ret, e_console, e_observed>>

envVars == <<args, pil_available, reg_json, template_file>>
buildVars == <<envVars, out_dir_exists, out_files, pc, run, all_registrants, registrants,
               entry_i, files_written, files_unchanged, written_paths, skip_warnings,
               history>>

refVars == <<working_set, referer, referred_html, ref_cell, scripts_ref_cell, rpc>>

csvVars == <<csv_input, csv_rows, csv_output, csv_pc, csv_status>>

concVars == <<c_data, c_disk, c_disk0, c_inst>>

vars == <<codecVars, emitVars, buildVars, refVars, csvVars, concVars>>

\* what a step of one part of the model leaves alone
notCodecVars == <<emitVars, buildVars, refVars, csvVars, concVars>>
notEmitVars == <<codecVars, buildVars, refVars, csvVars, concVars>>
notBuildVars == <<codecVars, emitVars, refVars, csvVars, concVars>>
notRefVars == <<codecVars, emitVars, buildVars, csvVars, concVars>>
notCsvVars == <<codecVars, emitVars, buildVars, refVars, concVars>>
notConcVars == <<codecVars, emitVars, buildVars, refVars, csvVars>>

\* ------------------------------------------------------------------------
\* Characters (code points) the model names
\* ------------------------------------------------------------------------
CharPlus == 43
CharHyphen == 45
CharSlash == 47
CharPad == 61
CharUnderscore == 95
CharLF == 10
CharCR == 13

\* ------------------------------------------------------------------------
\* Sequence helpers
\* ------------------------------------------------------------------------
\* a mutant of Reversed: the slice [::1], which copies without reversing
ReversedNot(s) == s

\* s[::-1]
Reversed(s) == [i \in 1..Len(s) |-> s[Len(s) + 1 - i]]

\* the set of sequences over S of length at most n
RECURSIVE SeqsUpTo(_, _)
SeqsUpTo(S, n) ==
    IF n = 0 THEN {<<>>}
    ELSE LET shorter == SeqsUpTo(S, n - 1)
         IN  shorter \cup {Append(s, c) : s \in {t \in shorter : Len(t) = n - 1}, c \in S}

\* ------------------------------------------------------------------------
\* str.encode('utf-8'): code points below 0x10000 take one to three bytes
\* ------------------------------------------------------------------------
utf8_bytes(c) ==
    IF c < 128 THEN <<c>>
    ELSE IF c < 2048 THEN <<192 + (c \div 64), 128 + (c % 64)>>
    ELSE <<224 + (c \div 4096), 128 + ((c \div 64) % 64), 128 + (c % 64)>>

\* the bytes of the characters, in order (the text is halved, so that the
\* evaluation of a long text stays shallow)
RECURSIVE encode_utf8(_)
encode_utf8(s) ==
    IF s = <<>> THEN <<>>
    ELSE IF Len(s) = 1 THEN utf8_bytes(s[1])
    ELSE LET h == Len(s) \div 2
         IN  encode_utf8(SubSeq(s, 1, h)) \o encode_utf8(SubSeq(s, h + 1, Len(s)))

\* ------------------------------------------------------------------------
\* base64.urlsafe_b64encode: b64encode over the standard alphabet, then
\* '+' and '/' translated to '-' and '_'
\* ------------------------------------------------------------------------
\* the standard alphabet: A-Z a-z 0-9 + /
b64_alphabet(i) ==
    IF i < 26 THEN 65 + i
    ELSE IF i < 52 THEN 97 + (i - 26)
    ELSE IF i < 62 THEN 48 + (i - 52)
    ELSE IF i = 62 THEN CharPlus
    ELSE CharSlash

\* a mutant of b64encode: the trailing group of one or two bytes is dropped
RECURSIVE b64encode_drop_tail(_)
b64encode_drop_tail(b) ==
    IF Len(b) < 3 THEN <<>>
    ELSE <<b64_alphabet(b[1] \div 4),
           b64_alphabet((b[1] % 4) * 16 + (b[2] \div 16)),
           b64_alphabet((b[2] % 16) * 4 + (b[3] \div 64)),
           b64_alphabet(b[3] % 64)>> \o b64encode_drop_tail(SubSeq(b, 4, Len(b)))

\* binascii.b2a_base64: three bytes to four characters, '=' padding
RECURSIVE b64encode(_)
b64encode(b) ==
    IF Len(b) = 0 THEN <<>>
    ELSE IF Len(b) = 1 THEN
        <<b64_alphabet(b[1] \div 4), b64_alphabet((b[1] % 4) * 16), CharPad, CharPad>>
    ELSE IF Len(b) = 2 THEN
        <<b64_alphabet(b[1] \div 4),
          b64_alphabet((b[1] % 4) * 16 + (b[2] \div 16)),
          b64_alphabet((b[2] % 16) * 4), CharPad>>
    ELSE <<b64_alphabet(b[1] \div 4),
           b64_alphabet((b[1] % 4) * 16 + (b[2] \div 16)),
           b64_alphabet((b[2] % 16) * 4 + (b[3] \div 64)),
           b64_alphabet(b[3] % 64)>> \o b64encode(SubSeq(b, 4, Len(b)))

\* bytes.translate(_urlsafe_encode_translation)
urlsafe_translate(s) ==
    [i \in 1..Len(s) |->
        IF s[i] = CharPlus THEN CharHyphen
        ELSE IF s[i] = CharSlash THEN CharUnderscore
        ELSE s[i]]

urlsafe_b64encode(b) == urlsafe_translate(b64encode(b))

\* a mutant of rstrip_pad: the padding is kept
rstrip_pad_kept(s) == s

\* b64.rstrip("=")
RECURSIVE rstrip_pad(_)
rstrip_pad(s) ==
    IF s # <<>> /\ s[Len(s)] = CharPad THEN rstrip_pad(SubSeq(s, 1, Len(s) - 1))
    ELSE s

\* ------------------------------------------------------------------------
\* codecs.encode(b64, "rot_13"): a character map with an entry for each of
\* A-Z and a-z; every other character maps to itself
\* ------------------------------------------------------------------------
Rot13Upper == <<78, 79, 80, 81, 82, 83, 84, 85, 86, 87, 88, 89, 90,
                65, 66, 67, 68, 69, 70, 71, 72, 73, 74, 75, 76, 77>>
Rot13Lower == <<110, 111, 112, 113, 114, 115, 116, 117, 118, 119, 120, 121, 122,
                97, 98, 99, 100, 101, 102, 103, 104, 105, 106, 107, 108, 109>>

rot13_char(c) ==
    IF c >= 65 /\ c <= 90 THEN Rot13Upper[c - 64]
    ELSE IF c >= 97 /\ c <= 122 THEN Rot13Lower[c - 96]
    ELSE c

\* a mutant of rot_13: 13 is added without wrapping inside the alphabet
rot_13_no_wrap(s) ==
    [i \in 1..Len(s) |->
        IF (s[i] >= 65 /\ s[i] <= 90) \/ (s[i] >= 97 /\ s[i] <= 122)
        THEN s[i] + 13 ELSE s[i]]

rot_13(s) == [i \in 1..Len(s) |-> rot13_char(s[i])]

\* ------------------------------------------------------------------------
\* id_to_filename, in generate_verifications.py and in its scripts/ copy
\* ------------------------------------------------------------------------
id_to_filename(id) ==
    LET b64 == urlsafe_b64encode(encode_utf8(id))
        stripped == rstrip_pad(b64)
        rot == rot_13(stripped)
    IN  Reversed(rot)

scripts_id_to_filename(id) ==
    LET b64 == urlsafe_b64encode(encode_utf8(id))
        stripped == rstrip_pad(b64)
        rot == rot_13(stripped)
    IN  Reversed(rot)

\* ------------------------------------------------------------------------
\* The ids the codec specifications draw from
\* ------------------------------------------------------------------------
MaxIdLen == 3
MaxPairIdLen == 2

\* 'A' 'Z' '0' '9' '-' : the expected alphabet (uppercase, digits, hyphen)
ExpectedChars == {65, 90, 48, 57, 45}
\* '?' '~' 'a' and e-acute: characters outside the expected alphabet
OtherChars == {63, 126, 97, 233}
IdChars == ExpectedChars \cup OtherChars

IsExpectedChar(c) ==
    (c >= 65 /\ c <= 90) \/ (c >= 48 /\ c <= 57) \/ c = CharHyphen

\* the observed pattern XX-Y-NNNN: streams SC AR CO, halves B G
Streams == {<<83, 67>>, <<65, 82>>, <<67, 79>>}
Halves == {66, 71}
SerialDigits == {48, 49, 57}

PatternIdsOver(digits) ==
    {s \o <<CharHyphen, h, CharHyphen>> \o n :
        s \in Streams, h \in Halves, n \in [1..4 -> digits]}

CodecIds == SeqsUpTo(IdChars, MaxIdLen) \cup PatternIdsOver(SerialDigits)
PairIds == SeqsUpTo({65, 66, 48, 45, 233}, MaxPairIdLen) \cup PatternIdsOver(SerialDigits)

\* ------------------------------------------------------------------------
\* Path.read_text(encoding="utf-8") and Path.write_text(content,
\* encoding="utf-8"): text mode with the default newline handling.  Reading
\* decodes UTF-8 (which can fail) and translates "\r\n" and "\r" to "\n";
\* writing translates "\n" to os.linesep, which is "\n" on POSIX, and
\* encodes.
\* ------------------------------------------------------------------------
ReadError == <<-1>>

\* the length of the well-formed character that starts at byte i, 0 when
\* none starts there
utf8_length(b, i) ==
    IF b[i] < 128 THEN 1
    ELSE IF b[i] >= 194 /\ b[i] <= 223 /\ Len(b) >= i + 1
            /\ b[i + 1] >= 128 /\ b[i + 1] <= 191 THEN 2
    ELSE IF b[i] >= 224 /\ b[i] <= 239 /\ Len(b) >= i + 2
            /\ b[i + 1] >= 128 /\ b[i + 1] <= 191 /\ b[i + 2] >= 128 /\ b[i + 2] <= 191
            /\ (4096 * (b[i] - 224)) + (64 * (b[i + 1] - 128)) + (b[i + 2] - 128) >= 2048
         THEN 3
    ELSE 0

utf8_code_point(b, i) ==
    IF utf8_length(b, i) = 1 THEN b[i]
    ELSE IF utf8_length(b, i) = 2 THEN (64 * (b[i] - 192)) + (b[i + 1] - 128)
    ELSE (4096 * (b[i] - 224)) + (64 * (b[i + 1] - 128)) + (b[i + 2] - 128)

\* bytes.decode('utf-8'), strict: every byte is the start of a well-formed
\* character or a continuation byte of the character one or two bytes back
decode_utf8(b) ==
    LET continues(i) == b[i] >= 128 /\ b[i] <= 191
        covered(i) == \/ i > 1 /\ utf8_length(b, i - 1) >= 2
                      \/ i > 2 /\ utf8_length(b, i - 2) = 3
        well_formed == \A i \in 1..Len(b) :
                          IF continues(i) THEN covered(i) ELSE utf8_length(b, i) > 0
        starts_at(i) == ~continues(i)
        starts == SelectSeq([i \in 1..Len(b) |-> i], starts_at)
    IN  IF ~well_formed THEN ReadError
        ELSE [k \in 1..Len(starts) |-> utf8_code_point(b, starts[k])]

\* a mutant of universal_newlines: newline="" semantics, no translation
universal_newlines_off(t) == t

\* "\r\n" and a lone "\r" are read as "\n": a line feed that follows a
\* carriage return is dropped, every carriage return becomes a line feed
universal_newlines(t) ==
    LET kept_at(i) == ~(t[i] = CharLF /\ i > 1 /\ t[i - 1] = CharCR)
        kept == SelectSeq([i \in 1..Len(t) |-> i], kept_at)
    IN  [k \in 1..Len(kept) |-> IF t[kept[k]] = CharCR THEN CharLF ELSE t[kept[k]]]

\* a file: whether it exists, its bytes, whether it may be opened for reading
NoFile == [present |-> FALSE, bytes |-> <<>>, readable |-> TRUE]
FileOf(b) == [present |-> TRUE, bytes |-> b, readable |-> TRUE]

read_text(f) ==
    IF ~f.readable THEN ReadError
    ELSE LET t == decode_utf8(f.bytes)
         IN  IF t = ReadError THEN ReadError ELSE universal_newlines(t)

write_text_bytes(content) == encode_utf8(content)

\* lines 817-822: the file exists, was read, and old == content
confirms_unchanged(f, content) ==
    f.present /\ read_text(f) # ReadError /\ read_text(f) = content

\* lines 818-824: the file exists and reading it raised
read_raises(f) == f.present /\ read_text(f) = ReadError

\* ------------------------------------------------------------------------
\* write_if_changed, step by step, beside a concurrent reader of the path
\* ------------------------------------------------------------------------
MaxContentLen == 2

\* 'a', line feed, carriage return
ContentChars == {97, CharLF, CharCR}
Contents == SeqsUpTo(ContentChars, MaxContentLen)
\* what may lie on disk before the call: any text's bytes, or bytes that are
\* not UTF-8
InvalidByte == 255
DiskBytes == {write_text_bytes(c) : c \in Contents} \cup {<<InvalidByte>>}

NotObserved == <<-2>>
ObservedAbsent == <<-3>>

EmitIdle ==
    /\ e_impl = "main" /\ e_content = <<>>
    /\ e_file = NoFile /\ e_file0 = NoFile
    /\ e_parent = TRUE /\ e_writable = TRUE
    /\ e_pc = "idle" /\ e_ret = "none" /\ e_console = <<>>
    /\ e_observed = NotObserved

EmitInit ==
    /\ e_impl \in {"main", "scripts"}
    /\ e_content \in Contents
    /\ e_parent \in BOOLEAN
    /\ e_writable \in BOOLEAN
    /\ e_file \in {NoFile} \cup
                  {[present |-> TRUE, bytes |-> b, readable |-> r] :
                       b \in DiskBytes, r \in BOOLEAN}
    /\ e_file.present => e_parent
    /\ e_file0 = e_file
    /\ e_pc = "exists"
    /\ e_ret = "none"
    /\ e_console = <<>>
    /\ e_observed = NotObserved

\* where the call goes when it has not confirmed "unchanged": line 825 in
\* generate_verifications.py; the scripts/ copy has no mkdir
after_check(impl) == IF impl = "main" THEN "mkdir" ELSE "open"

\* line 817: if path.exists()
Exists ==
    /\ UNCHANGED notEmitVars
    /\ e_pc = "exists"
    /\ e_pc' = IF e_file.present THEN "read" ELSE after_check(e_impl)
    /\ UNCHANGED <<e_impl, e_content, e_file, e_file0, e_parent, e_writable,
                   e_ret, e_console, e_observed>>

\* lines 818-822: old == content, print "Unchanged", return False
ReadSame ==
    /\ UNCHANGED notEmitVars
    /\ e_pc = "read"
    /\ confirms_unchanged(e_file, e_content)
    /\ e_console' = Append(e_console, "unchanged")
    /\ e_ret' = "False"
    /\ e_pc' = "returned"
    /\ UNCHANGED <<e_impl, e_content, e_file, e_file0, e_parent, e_writable, e_observed>>

\* lines 818-820: the file was read and old # content
ReadDiffers ==
    /\ UNCHANGED notEmitVars
    /\ e_pc = "read"
    /\ ~confirms_unchanged(e_file, e_content)
    /\ ~read_raises(e_file)
    /\ e_pc' = after_check(e_impl)
    /\ UNCHANGED <<e_impl, e_content, e_file, e_file0, e_parent, e_writable,
                   e_ret, e_console, e_observed>>

\* lines 823-824: except Exception: a warning is printed; the scripts/ copy
\* (lines 156-157) passes in silence
ReadRaises ==
    /\ UNCHANGED notEmitVars
    /\ e_pc = "read"
    /\ read_raises(e_file)
    /\ e_console' = IF e_impl = "main" THEN Append(e_console, "warning") ELSE e_console
    /\ e_pc' = after_check(e_impl)
    /\ UNCHANGED <<e_impl, e_content, e_file, e_file0, e_parent, e_writable,
                   e_ret, e_observed>>

\* line 825: path.parent.mkdir(parents=True, exist_ok=True)
Mkdir ==
    /\ UNCHANGED notEmitVars
    /\ e_pc = "mkdir"
    /\ IF e_parent THEN
           /\ e_pc' = "open"
           /\ UNCHANGED <<e_parent, e_ret>>
       ELSE IF e_writable THEN
           /\ e_parent' = TRUE
           /\ e_pc' = "open"
           /\ UNCHANGED e_ret
       ELSE
           /\ e_pc' = "raised"
           /\ e_ret' = "raised"
           /\ UNCHANGED e_parent
    /\ UNCHANGED <<e_impl, e_content, e_file, e_file0, e_writable, e_console, e_observed>>

\* line 826, write_text opening the file with mode "w": the file is created
\* or truncated; FileNotFoundError without the parent, PermissionError
\* without the right to write
OpenTruncate ==
    /\ UNCHANGED notEmitVars
    /\ e_pc = "open"
    /\ IF e_parent /\ e_writable THEN
           /\ e_file' = [present |-> TRUE, bytes |-> <<>>,
                         readable |-> IF e_file.present THEN e_file.readable ELSE TRUE]
           /\ e_pc' = "write"
           /\ UNCHANGED e_ret
       ELSE
           /\ e_pc' = "raised"
           /\ e_ret' = "raised"
           /\ UNCHANGED e_file
    /\ UNCHANGED <<e_impl, e_content, e_file0, e_parent, e_writable, e_console, e_observed>>

\* line 826, the buffered bytes reaching the file, some at a time
Flush ==
    /\ UNCHANGED notEmitVars
    /\ e_pc = "write"
    /\ LET all == write_text_bytes(e_content)
           done == Len(e_file.bytes)
       IN  /\ done < Len(all)
           /\ \E k \in 1..(Len(all) - done) :
                  e_file' = [e_file EXCEPT !.bytes = SubSeq(all, 1, done + k)]
    /\ UNCHANGED <<e_impl, e_content, e_file0, e_parent, e_writable, e_pc,
                   e_ret, e_console, e_observed>>

\* lines 826-828: the file is closed, "Wrote" is printed, return True
CloseReturn ==
    /\ UNCHANGED notEmitVars
    /\ e_pc = "write"
    /\ e_file.bytes = write_text_bytes(e_content)
    /\ e_console' = Append(e_console, "wrote")
    /\ e_ret' = "True"
    /\ e_pc' = "returned"
    /\ UNCHANGED <<e_impl, e_content, e_file, e_file0, e_parent, e_writable, e_observed>>

\* another process reads the destination path while the call runs
Observe ==
    /\ UNCHANGED notEmitVars
    /\ e_pc \in {"exists", "read", "mkdir", "open", "write"}
    /\ e_observed' = IF e_file.present THEN e_file.bytes ELSE ObservedAbsent
    /\ UNCHANGED <<e_impl, e_content, e_file, e_file0, e_parent, e_writable,
                   e_pc, e_ret, e_console>>

EmitNext ==
    \/ Exists
    \/ ReadSame
    \/ ReadDiffers
    \/ ReadRaises
    \/ Mkdir
    \/ OpenTruncate
    \/ Flush
    \/ CloseReturn
    \/ Observe

\* ------------------------------------------------------------------------
\* write_if_changed as one step, as the single-threaded build sees it:
\* the file afterwards, the returned value and what was printed
\* ------------------------------------------------------------------------
write_if_changed(f, content) ==
    IF confirms_unchanged(f, content)
    THEN [file |-> f, ret |-> FALSE, warned |-> FALSE, wrote |-> FALSE]
    ELSE [file |-> [present |-> TRUE, bytes |-> write_text_bytes(content),
                    readable |-> IF f.present THEN f.readable ELSE TRUE],
          ret |-> TRUE, warned |-> read_raises(f), wrote |-> TRUE]

\* ------------------------------------------------------------------------
\* The build: registrants, referral helpers, filters and rendering
\* ------------------------------------------------------------------------
\* PLACEHOLDER_IDS: SC-B-0001 SC-G-0001 AR-B-0001 AR-G-0001 CO-B-0001 CO-G-0001
PLACEHOLDER_IDS ==
    << <<83, 67, 45, 66, 45, 48, 48, 48, 49>>, <<83, 67, 45, 71, 45, 48, 48, 48, 49>>,
       <<65, 82, 45, 66, 45, 48, 48, 48, 49>>, <<65, 82, 45, 71, 45, 48, 48, 48, 49>>,
       <<67, 79, 45, 66, 45, 48, 48, 48, 49>>, <<67, 79, 45, 71, 45, 48, 48, 48, 49>> >>

\* a registrant object of registrants.json; the key registration_id may be
\* absent (KeyAbsent) or hold null (Null)
KeyAbsent == <<-10>>
Null == <<-11>>

Registrant(id, name, roll, ref) ==
    [registration_id |-> id, name |-> name, roll |-> roll, referred_by |-> ref,
     is_placeholder |-> FALSE]

\* lines 970-980: the synthetic entry appended for a missing placeholder id
\* ("Not Yet Registered", roll "N/A", referred_by "")
PlaceholderEntry(id) ==
    [registration_id |-> id,
     name |-> <<78, 111, 116, 32, 89, 101, 116, 32, 82, 101, 103, 105, 115, 116,
                101, 114, 101, 100>>,
     roll |-> <<78, 47, 65>>, referred_by |-> <<>>, is_placeholder |-> TRUE]

\* Python truth of a value that is a string, None or missing
Truthy(v) == v # KeyAbsent /\ v # Null /\ v # <<>>

\* entry.get("registration_id", "")
get_registration_id(r) ==
    IF r.registration_id = KeyAbsent THEN <<>> ELSE r.registration_id

\* str.strip(): leading and trailing whitespace removed
IsSpace(c) == c \in {32, 9, CharLF, 11, 12, CharCR}

RECURSIVE lstrip(_)
lstrip(t) == IF t # <<>> /\ IsSpace(t[1]) THEN lstrip(Tail(t)) ELSE t

RECURSIVE rstrip(_)
rstrip(t) ==
    IF t # <<>> /\ IsSpace(t[Len(t)]) THEN rstrip(SubSeq(t, 1, Len(t) - 1)) ELSE t

strip(t) == rstrip(lstrip(t))

\* str.lower(), for the letters A-Z
lower(t) == [i \in 1..Len(t) |-> IF t[i] >= 65 /\ t[i] <= 90 THEN t[i] + 32 ELSE t[i]]

\* _build_indexes: three dictionaries; a later registrant with the same key
\* replaces an earlier one.  Each is given here as the lookup it answers:
\* the position in regs of the entry stored under key, 0 when there is none.
Last(S) == IF S = {} THEN 0 ELSE CHOOSE i \in S : \A j \in S : j <= i

by_id(regs, key) ==
    Last({i \in 1..Len(regs) :
        Truthy(regs[i].registration_id) /\ regs[i].registration_id = key})

by_roll(regs, key) ==
    Last({i \in 1..Len(regs) : Truthy(regs[i].roll) /\ regs[i].roll = key})

by_name(regs, key) ==
    Last({i \in 1..Len(regs) :
        Truthy(regs[i].name) /\ lower(strip(regs[i].name)) = key})

\* _resolve_referer with the roll index tried before the id index
resolve_referer_roll_first(ref_value, regs) ==
    IF ~Truthy(ref_value) THEN 0
    ELSE LET v == strip(ref_value)
         IN  IF by_roll(regs, v) # 0 THEN by_roll(regs, v)
             ELSE IF by_id(regs, v) # 0 THEN by_id(regs, v)
             ELSE by_name(regs, lower(v))

\* _resolve_referer: the position in regs of the referer, 0 for None
resolve_referer(ref_value, regs) ==
    IF ~Truthy(ref_value) THEN 0
    ELSE LET v == strip(ref_value)
         IN  IF by_id(regs, v) # 0 THEN by_id(regs, v)
             ELSE IF by_roll(regs, v) # 0 THEN by_roll(regs, v)
             ELSE by_name(regs, lower(v))

\* lines 992-996: id_to_file, the dictionary registration_id -> filename
DotHtml == <<46, 104, 116, 109, 108>>
DotPng == <<46, 112, 110, 103>>
Hash == <<35>>

in_id_to_file(regs, id) ==
    \E i \in 1..Len(regs) :
        Truthy(get_registration_id(regs[i])) /\ get_registration_id(regs[i]) = id

\* a lookup that names a file for whatever it is asked
id_to_file_get_unscoped(regs, id) == id_to_filename(id) \o DotHtml

\* id_to_file.get(id, "#")
id_to_file_get(regs, id) ==
    IF in_id_to_file(regs, id) THEN id_to_filename(id) \o DotHtml ELSE Hash

\* _filter_registrants(registrants, ids, limit); ids and limit are <<>> / 0
\* when the option is not given
\* a mutant of filter_registrants: the limit is applied although ids are given
filter_registrants_limit_first(regs, ids, limit) ==
    IF limit > 0 THEN SubSeq(regs, 1, IF limit < Len(regs) THEN limit ELSE Len(regs))
    ELSE regs

filter_registrants(regs, ids, limit) ==
    IF ids # <<>> THEN
        LET wanted == {strip(ids[i]) : i \in {j \in 1..Len(ids) : strip(ids[j]) # <<>>}}
            P(r) == r.registration_id \in wanted
        IN  SelectSeq(regs, P)
    ELSE IF limit > 0 THEN
        SubSeq(regs, 1, IF limit < Len(regs) THEN limit ELSE Len(regs))
    ELSE regs

\* lines 967-981: a placeholder entry is appended for each id of
\* PLACEHOLDER_IDS that no input object carries under the key registration_id
RECURSIVE inject_from(_, _)
inject_from(regs, k) ==
    IF k > Len(PLACEHOLDER_IDS) THEN regs
    ELSE LET existing == {regs[i].registration_id :
                              i \in {j \in 1..Len(regs) : regs[j].registration_id # KeyAbsent}}
         IN  inject_from(IF PLACEHOLDER_IDS[k] \in existing THEN regs
                         ELSE Append(regs, PlaceholderEntry(PLACEHOLDER_IDS[k])), k + 1)

\* injection that does not look at the ids the input carries
inject_placeholders_unchecked(regs) ==
    regs \o [k \in 1..Len(PLACEHOLDER_IDS) |-> PlaceholderEntry(PLACEHOLDER_IDS[k])]

inject_placeholders(regs) == inject_from(regs, 1)

\* calculate_statistics: r.get("registration_id", "").lower() raises
\* AttributeError on a null id
statistics_raises(regs) == \E i \in 1..Len(regs) : regs[i].registration_id = Null

\* stats["total"]: the entries that are no placeholders
stats_total(regs) == Cardinality({i \in 1..Len(regs) : ~regs[i].is_placeholder})

\* the per-stream, per-gender count: ids whose lowercased first two fields
\* are stream and gender
RECURSIVE FieldEnd(_, _)
FieldEnd(t, i) == IF i > Len(t) \/ t[i] = CharHyphen THEN i ELSE FieldEnd(t, i + 1)

stats_count(regs, stream, gender) ==
    Cardinality({i \in 1..Len(regs) :
        LET id == lower(get_registration_id(regs[i]))
            e1 == FieldEnd(id, 1)
            e2 == FieldEnd(id, e1 + 1)
        IN  /\ id # <<>>
            /\ ~regs[i].is_placeholder
            /\ e1 <= Len(id)
            /\ SubSeq(id, 1, e1 - 1) = stream
            /\ SubSeq(id, e1 + 1, e2 - 1) = gender})

Digit(n) == <<48 + n>>

calculate_statistics(regs) ==
    Digit(stats_count(regs, <<115, 99>>, <<98>>)) \o Digit(stats_count(regs, <<115, 99>>, <<103>>))
    \o Digit(stats_count(regs, <<97, 114>>, <<98>>)) \o Digit(stats_count(regs, <<97, 114>>, <<103>>))
    \o Digit(stats_count(regs, <<99, 111>>, <<98>>)) \o Digit(stats_count(regs, <<99, 111>>, <<103>>))
    \o Digit(stats_total(regs))

\* render_template over the fields the model keeps, for a template that is
\* "{{name}}|{{roll}}|{{registration_id}}|{{status_text}}|{{meta_image}}|{{referred_by_section}}"
Sep == <<124>>
AnchorOpen == <<60, 97, 32>>
AnchorMid == <<62>>
SpanOpen == <<60, 115, 62>>
EmDash == <<8212>>
RowEnd == <<59>>

\* lines 1027-1032 and 141, 159: status_text
status_text(entry) ==
    IF entry.is_placeholder
    THEN <<78, 111, 116, 32, 89, 101, 116, 32, 82, 101, 103, 105, 115, 116, 101, 114, 101, 100>>
    ELSE <<82, 101, 103, 105, 115, 116, 114, 97, 116, 105, 111, 110, 32, 86, 101, 114,
           105, 102, 105, 101, 100>>

\* _build_ref_section
build_ref_section(entry, regs) ==
    IF ~Truthy(entry.referred_by) THEN <<>>
    ELSE LET j == resolve_referer(entry.referred_by, regs)
         IN  IF j # 0
             THEN AnchorOpen \o id_to_file_get(regs, regs[j].registration_id)
                  \o AnchorMid \o regs[j].name
             ELSE SpanOpen \o entry.referred_by

\* lines 1034-1045: "/assets/meta/<stem>.png" when the card was generated,
\* "/assets/meta_card.png" otherwise
meta_rel(filename_stem, generated) ==
    IF generated
    THEN <<47, 97, 115, 115, 101, 116, 115, 47, 109, 101, 116, 97, 47>> \o filename_stem \o DotPng
    ELSE <<47, 97, 115, 115, 101, 116, 115, 47, 109, 101, 116, 97, 95, 99, 97, 114, 100,
           46, 112, 110, 103>>

render_template(entry, meta_image, referred_by_section) ==
    entry.name \o Sep \o entry.roll \o Sep \o get_registration_id(entry) \o Sep
    \o status_text(entry) \o Sep \o meta_image \o Sep \o referred_by_section

\* lines 1068-1087: links and ref_cells, one of each for every registrant
link_of(entry, regs) ==
    IF ~Truthy(get_registration_id(entry)) THEN Hash
    ELSE id_to_file_get(regs, get_registration_id(entry))

ref_cell_of(entry, regs) ==
    IF ~Truthy(get_registration_id(entry)) THEN EmDash
    ELSE LET j == IF Truthy(entry.referred_by)
                  THEN resolve_referer(entry.referred_by, regs) ELSE 0
         IN  IF j # 0
             THEN AnchorOpen \o id_to_file_get(regs, regs[j].registration_id)
                  \o AnchorMid \o regs[j].name
             ELSE IF Truthy(entry.referred_by) /\ strip(entry.referred_by) # <<>>
             THEN SpanOpen \o strip(entry.referred_by)
             ELSE EmDash

\* lines 1090-1092: the registrants that are no placeholders
final_registrants(regs) ==
    LET P(r) == ~r.is_placeholder IN SelectSeq(regs, P)

\* render_master_list: reg['registration_id'] raises KeyError without the key
master_list_raises(regs) ==
    \E i \in 1..Len(regs) : ~regs[i].is_placeholder /\ regs[i].registration_id = KeyAbsent

NoneText == <<78, 111, 110, 101>>

RECURSIVE master_rows(_, _, _)
master_rows(regs, all, i) ==
    IF i > Len(regs) THEN <<>>
    ELSE (IF regs[i].is_placeholder THEN <<>>
          ELSE (IF regs[i].registration_id = Null THEN NoneText
                ELSE regs[i].registration_id)
               \o Sep \o link_of(regs[i], regs) \o Sep \o regs[i].name \o Sep
               \o regs[i].roll \o Sep \o ref_cell_of(regs[i], regs) \o RowEnd)
         \o master_rows(regs, all, i + 1)

render_master_list(regs, all) ==
    calculate_statistics(all) \o RowEnd \o master_rows(regs, all, 1)

\* generate_meta_card: the PNG drawn from name, roll and id
meta_card_bytes(entry) ==
    <<137, 80, 78, 71>> \o encode_utf8(entry.name \o Sep \o entry.roll \o Sep
                                       \o get_registration_id(entry))

\* the paths of the output directory
MasterListPath ==
    <<109, 97, 115, 116, 101, 114, 95, 108, 105, 115, 116, 46, 104, 116, 109, 108>>
page_path(id) == id_to_filename(id) \o DotHtml
meta_path(id) ==
    <<97, 115, 115, 101, 116, 115, 47, 109, 101, 116, 97, 47>> \o id_to_filename(id) \o DotPng
IndexPath == <<105, 110, 100, 101, 120, 46, 104, 116, 109, 108>>
NotFoundPath == <<52, 48, 52, 46, 104, 116, 109, 108>>
RegJsonCopyPath ==
    <<114, 101, 103, 105, 115, 116, 114, 97, 110, 116, 115, 46, 106, 115, 111, 110>>
LogoPath == <<97, 115, 115, 101, 116, 115, 47, 108, 111, 103, 111, 46, 112, 110, 103>>
MetaCardPath ==
    <<97, 115, 115, 101, 116, 115, 47, 109, 101, 116, 97, 95, 99, 97, 114, 100, 46,
      112, 110, 103>>
StaticPaths == <<IndexPath, NotFoundPath, RegJsonCopyPath, LogoPath, MetaCardPath>>

\* the bytes of registrants.json, as far as the model's fields go
RECURSIVE json_text(_)
json_text(data) ==
    IF data = <<>> THEN <<>>
    ELSE LET r == Head(data)
         IN  (IF r.registration_id \in {KeyAbsent, Null} THEN <<>> ELSE r.registration_id)
             \o Sep \o r.name \o Sep \o r.roll \o Sep \o r.referred_by \o RowEnd
             \o json_text(Tail(data))

\* _copy_static_pages: what shutil.copy2 leaves at each destination
static_bytes(path, data) ==
    IF path = RegJsonCopyPath THEN encode_utf8(json_text(data))
    ELSE <<115>> \o path

\* ------------------------------------------------------------------------
\* main(): runs of the generator over one output directory
\* ------------------------------------------------------------------------
MaxRegistrants == 2
MaxRuns == 2

Id1 == PLACEHOLDER_IDS[1]
Id2 == <<83, 67, 45, 66, 45, 48, 48, 48, 50>>
NameA == <<97>>
NameACR == <<97, CharCR>>
Roll1 == <<49>>

\* the objects registrants.json may hold
InputRecords ==
    {Registrant(id, name, Roll1, ref) :
        id \in {Id1, Id2}, name \in {NameA, NameACR}, ref \in {<<>>, Id2}}
    \cup {Registrant(id, NameA, Roll1, <<>>) : id \in {KeyAbsent, Null, <<>>}}
Inputs == SeqsUpTo(InputRecords, MaxRegistrants)

\* the command lines: --clean, --limit N, --ids a,b, --master-only, --no-static
Args(clean, limit, ids, master_only, no_static) ==
    [clean |-> clean, limit |-> limit, ids |-> ids, master_only |-> master_only,
     no_static |-> no_static]
ArgChoices ==
    {Args(FALSE, 0, <<>>, FALSE, FALSE), Args(TRUE, 0, <<>>, FALSE, FALSE),
     Args(FALSE, 1, <<>>, FALSE, FALSE), Args(FALSE, 0, <<Id2>>, FALSE, FALSE),
     Args(FALSE, 1, <<Id2>>, FALSE, TRUE), Args(FALSE, 0, <<>>, TRUE, FALSE),
     Args(FALSE, 0, <<>>, FALSE, TRUE), Args(TRUE, 0, <<>>, TRUE, TRUE)}

\* the output directory as a map from the relative paths present to files
EmptyDir == [p \in {} |-> NoFile]
file_at(dir, path) == IF path \in DOMAIN dir THEN dir[path] ELSE NoFile
put(dir, path, file) ==
    [p \in DOMAIN dir \cup {path} |-> IF p = path THEN file ELSE dir[p]]

\* what an earlier build may have left behind: a page of another content
StaleBytes == <<111, 108, 100>>
StaleDir == put(EmptyDir, page_path(Id2), FileOf(StaleBytes))

\* a write to the output directory: the path, and whether the bytes written
\* differ from what the path held before (or the path held nothing)
WriteOf(dir, path, bytes, by) ==
    [path |-> path, by |-> by,
     differed |-> ~file_at(dir, path).present \/ file_at(dir, path).bytes # bytes]

\* lines 1062-1065 and 1096-1099: the result of write_if_changed is tallied
count_written(ret, n) == IF ret THEN n + 1 ELSE n

count_unchanged_always(ret, n) == n + 1

count_unchanged(ret, n) == IF ret THEN n ELSE n + 1

NoLocals ==
    /\ all_registrants = <<>> /\ registrants = <<>> /\ entry_i = 0
    /\ files_written = 0 /\ files_unchanged = 0
    /\ written_paths = <<>> /\ skip_warnings = 0

BuildIdle ==
    /\ args = Args(FALSE, 0, <<>>, FALSE, FALSE) /\ pil_available = FALSE
    /\ reg_json = [is_file |-> FALSE, data |-> <<>>] /\ template_file = FALSE
    /\ out_dir_exists = FALSE /\ out_files = EmptyDir
    /\ pc = "idle" /\ run = 0 /\ history = <<>>
    /\ NoLocals

\* the state before the first run, for given contents of registrants.json
\* and given command lines
BuildInitOver(inputs, arg_choices) ==
    /\ args \in arg_choices
    /\ pil_available \in BOOLEAN
    /\ reg_json \in {[is_file |-> TRUE, data |-> d] : d \in inputs}
                    \cup {[is_file |-> FALSE, data |-> <<>>]}
    /\ template_file \in BOOLEAN
    /\ template_file \/ reg_json.data = <<>>
    /\ \E before \in {<<FALSE, EmptyDir>>, <<TRUE, EmptyDir>>, <<TRUE, StaleDir>>} :
        out_dir_exists = before[1] /\ out_files = before[2]
    /\ pc = "prepare" /\ run = 1 /\ history = <<>>
    /\ NoLocals

BuildInit == BuildInitOver(Inputs, ArgChoices)

\* fewer kinds of registrant
CoreRecords ==
    {Registrant(Id1, NameA, Roll1, <<>>), Registrant(Id1, NameA, Roll1, Id2),
     Registrant(Id2, NameACR, Roll1, <<>>), Registrant(<<>>, NameA, Roll1, <<>>),
     Registrant(KeyAbsent, NameA, Roll1, <<>>), Registrant(Null, NameA, Roll1, <<>>)}
CoreInit == BuildInitOver(SeqsUpTo(CoreRecords, MaxRegistrants), ArgChoices)

\* command lines that filter: --ids lists with blanks around an id, with two
\* ids and with a blank entry, --limit below, at and above the list's length
FilterArgs ==
    {Args(FALSE, limit, ids, master_only, TRUE) :
        limit \in {-1, 0, 1, 7},
        ids \in {<<>>, <<Id2>>, <<Id2, <<32>> \o Id1 \o <<32>> >>, << <<32>> >>},
        master_only \in BOOLEAN}
FilterInit ==
    /\ BuildInitOver(SeqsUpTo(CoreRecords, MaxRegistrants), FilterArgs)
    /\ ~pil_available /\ ~out_dir_exists

\* registrants that refer to one another: by id, by the name of a registrant
\* that has an id and by the name of one that has none
NameBee == <<98>>
NameCee == <<99>>
LinkRecords ==
    {Registrant(Id1, NameA, Roll1, Id2), Registrant(Id1, NameA, Roll1, NameBee),
     Registrant(Id1, NameA, Roll1, NameCee), Registrant(Id2, NameBee, Roll1, <<>>),
     Registrant(<<>>, NameCee, Roll1, <<>>)}
LinkArgs ==
    {Args(FALSE, limit, ids, FALSE, TRUE) : limit \in {0, 1}, ids \in {<<>>, <<Id1>>}}
LinkInit ==
    /\ BuildInitOver(SeqsUpTo(LinkRecords, MaxRegistrants), LinkArgs)
    /\ ~pil_available /\ ~out_dir_exists

\* the record of a run that has ended
RunRecord(outcome, dir, written, unchanged, writes) ==
    [outcome |-> outcome, out_files |-> dir, files_written |-> written,
     files_unchanged |-> unchanged, written_paths |-> writes,
     skip_warnings |-> skip_warnings, registrants |-> registrants,
     reg_json |-> reg_json.data]

\* preparation that never removes the tree
prepare_output_keep(clean, exists, dir) == dir

\* preparation that always removes the tree
prepare_output_always(clean, exists, dir) == EmptyDir

\* lines 949-953: shutil.rmtree(out_dir) under --clean when the directory
\* exists, then mkdir: the files of the directory afterwards
prepare_output(clean, exists, dir) == IF clean /\ exists THEN EmptyDir ELSE dir

\* lines 947-953
Prepare ==
    /\ pc = "prepare"
    /\ out_files' = prepare_output(args.clean, out_dir_exists, out_files)
    /\ out_dir_exists' = TRUE
    /\ pc' = "load"
    /\ UNCHANGED <<envVars, run, all_registrants, registrants, entry_i, files_written,
                   files_unchanged, written_paths, skip_warnings, history>>
    /\ UNCHANGED notBuildVars

\* lines 955-965
Load ==
    /\ pc = "load"
    /\ IF ~reg_json.is_file \/ ~template_file
       THEN /\ pc' = "returned"
            /\ history' = Append(history, RunRecord("returned", out_files, 0, 0, <<>>))
            /\ UNCHANGED all_registrants
       ELSE /\ pc' = "inject"
            /\ all_registrants' = reg_json.data
            /\ UNCHANGED history
    /\ UNCHANGED <<envVars, out_dir_exists, out_files, run, registrants, entry_i,
                   files_written, files_unchanged, written_paths, skip_warnings>>
    /\ UNCHANGED notBuildVars

\* lines 967-984
Inject ==
    /\ pc = "inject"
    /\ all_registrants' = inject_placeholders(all_registrants)
    /\ IF statistics_raises(all_registrants')
       THEN /\ pc' = "raised"
            /\ history' = Append(history, RunRecord("raised", out_files, 0, 0, <<>>))
       ELSE /\ pc' = "filter"
            /\ UNCHANGED history
    /\ UNCHANGED <<envVars, out_dir_exists, out_files, run, registrants, entry_i,
                   files_written, files_unchanged, written_paths, skip_warnings>>
    /\ UNCHANGED notBuildVars

\* lines 986-1006
Filter ==
    /\ pc = "filter"
    /\ registrants' = filter_registrants(all_registrants, args.ids, args.limit)
    /\ files_written' = 0
    /\ files_unchanged' = 0
    /\ entry_i' = 1
    /\ pc' = IF args.master_only \/ registrants' = <<>> THEN "master" ELSE "pages"
    /\ UNCHANGED <<envVars, out_dir_exists, out_files, run, all_registrants,
                   written_paths, skip_warnings, history>>
    /\ UNCHANGED notBuildVars

\* lines 1008-1065: one iteration of the loop over registrants
Page ==
    /\ pc = "pages"
    /\ entry_i <= Len(registrants)
    /\ LET entry == registrants[entry_i]
           reg_id_ == get_registration_id(entry)
       IN  IF ~Truthy(reg_id_)
           THEN /\ skip_warnings' = skip_warnings + 1
                /\ UNCHANGED <<out_files, files_written, files_unchanged, written_paths>>
           ELSE LET generated == pil_available
                    with_meta == IF generated
                                 THEN put(out_files, meta_path(reg_id_),
                                          FileOf(meta_card_bytes(entry)))
                                 ELSE out_files
                    meta_writes == IF generated
                                   THEN <<WriteOf(out_files, meta_path(reg_id_),
                                                  meta_card_bytes(entry),
                                                  "generate_meta_card")>>
                                   ELSE <<>>
                    content == render_template(entry,
                                   meta_rel(id_to_filename(reg_id_), generated),
                                   build_ref_section(entry, registrants))
                    out_path == page_path(reg_id_)
                    w == write_if_changed(file_at(with_meta, out_path), content)
                IN  /\ out_files' = IF w.wrote THEN put(with_meta, out_path, w.file)
                                    ELSE with_meta
                    /\ files_written' = count_written(w.ret, files_written)
                    /\ files_unchanged' = count_unchanged(w.ret, files_unchanged)
                    /\ written_paths' = written_paths \o meta_writes \o
                           (IF w.wrote
                            THEN <<WriteOf(with_meta, out_path, write_text_bytes(content),
                                           "write_if_changed")>>
                            ELSE <<>>)
                    /\ UNCHANGED skip_warnings
    /\ entry_i' = entry_i + 1
    /\ pc' = IF entry_i = Len(registrants) THEN "master" ELSE "pages"
    /\ UNCHANGED <<envVars, out_dir_exists, run, all_registrants, registrants, history>>
    /\ UNCHANGED notBuildVars

\* lines 1067-1099
MasterList ==
    /\ pc = "master"
    /\ IF master_list_raises(registrants)
       THEN /\ pc' = "raised"
            /\ history' = Append(history, RunRecord("raised", out_files, files_written,
                                                    files_unchanged, written_paths))
            /\ UNCHANGED <<out_files, files_written, files_unchanged, written_paths>>
       ELSE LET master_html == render_master_list(registrants, all_registrants)
                w == write_if_changed(file_at(out_files, MasterListPath), master_html)
            IN  /\ out_files' = IF w.wrote THEN put(out_files, MasterListPath, w.file)
                                ELSE out_files
                /\ files_written' = count_written(w.ret, files_written)
                /\ files_unchanged' = count_unchanged(w.ret, files_unchanged)
                /\ written_paths' = IF w.wrote
                       THEN Append(written_paths,
                                   WriteOf(out_files, MasterListPath,
                                           write_text_bytes(master_html),
                                           "write_if_changed"))
                       ELSE written_paths
                /\ pc' = "static"
                /\ UNCHANGED history
    /\ UNCHANGED <<envVars, out_dir_exists, run, all_registrants, registrants, entry_i,
                   skip_warnings>>
    /\ UNCHANGED notBuildVars

\* _copy_static_pages: shutil.copy2 of each source onto its destination
RECURSIVE copy_static(_, _, _)
copy_static(dir, data, k) ==
    IF k > Len(StaticPaths) THEN dir
    ELSE copy_static(put(dir, StaticPaths[k], FileOf(static_bytes(StaticPaths[k], data))),
                     data, k + 1)

RECURSIVE static_writes(_, _, _)
static_writes(dir, data, k) ==
    IF k > Len(StaticPaths) THEN <<>>
    ELSE <<WriteOf(dir, StaticPaths[k], static_bytes(StaticPaths[k], data), "copy2")>>
         \o static_writes(dir, data, k + 1)

\* lines 1101-1103
CopyStatic ==
    /\ pc = "static"
    /\ IF ~args.no_static
       THEN /\ out_files' = copy_static(out_files, reg_json.data, 1)
            /\ written_paths' = written_paths \o static_writes(out_files, reg_json.data, 1)
       ELSE UNCHANGED <<out_files, written_paths>>
    /\ pc' = "summary"
    /\ UNCHANGED <<envVars, out_dir_exists, run, all_registrants, registrants, entry_i,
                   files_written, files_unchanged, skip_warnings, history>>
    /\ UNCHANGED notBuildVars

\* lines 1105-1114
Summary ==
    /\ pc = "summary"
    /\ history' = Append(history, RunRecord("done", out_files, files_written,
                                            files_unchanged, written_paths))
    /\ pc' = "done"
    /\ UNCHANGED <<envVars, out_dir_exists, out_files, run, all_registrants, registrants,
                   entry_i, files_written, files_unchanged, written_paths, skip_warnings>>
    /\ UNCHANGED notBuildVars

\* the generator is run again, with the same command line, over the same
\* inputs and the output directory as the last run left it
Rerun ==
    /\ pc \in {"done", "returned", "raised"}
    /\ run < MaxRuns
    /\ run' = run + 1
    /\ pc' = "prepare"
    /\ all_registrants' = <<>> /\ registrants' = <<>> /\ entry_i' = 0
    /\ files_written' = 0 /\ files_unchanged' = 0
    /\ written_paths' = <<>> /\ skip_warnings' = 0
    /\ UNCHANGED <<envVars, out_dir_exists, out_files, history>>
    /\ UNCHANGED notBuildVars

BuildNext ==
    \/ Prepare \/ Load \/ Inject \/ Filter \/ Page \/ MasterList \/ CopyStatic
    \/ Summary \/ Rerun

\* between two runs one registrant of registrants.json is given another name
NameB == <<98>>
ChangedNames == {NameA, NameB}

ChangeName ==
    /\ pc = "done"
    /\ run < MaxRuns
    /\ \E i \in 1..Len(reg_json.data), name \in ChangedNames :
        /\ name # reg_json.data[i].name
        /\ reg_json' = [reg_json EXCEPT !.data[i].name = name]
    /\ run' = run + 1
    /\ pc' = "prepare"
    /\ all_registrants' = <<>> /\ registrants' = <<>> /\ entry_i' = 0
    /\ files_written' = 0 /\ files_unchanged' = 0
    /\ written_paths' = <<>> /\ skip_warnings' = 0
    /\ UNCHANGED <<args, pil_available, template_file, out_dir_exists, out_files, history>>
    /\ UNCHANGED notBuildVars

\* a first build into a fresh output directory, from inputs that are present
\* and whose names hold no carriage return
IncrInit ==
    /\ BuildInit
    /\ reg_json.is_file /\ template_file
    /\ ~out_dir_exists /\ ~args.clean
    /\ \A i \in 1..Len(reg_json.data) : reg_json.data[i].name = NameA

IncrNext ==
    \/ Prepare \/ Load \/ Inject \/ Filter \/ Page \/ MasterList \/ CopyStatic
    \/ Summary \/ Rerun \/ ChangeName

\* ------------------------------------------------------------------------
\* Referral resolution: _build_indexes, _resolve_referer and the two places
\* that show the result
\* ------------------------------------------------------------------------
MaxOthers == 2

Id3 == <<83, 67, 45, 66, 45, 48, 48, 48, 51>>
Text1001 == <<49, 48, 48, 49>>
NameAnn == <<65, 110, 110>>
NameC == <<99>>
Roll3 == <<51>>

\* the registrants beside the one whose referred_by is resolved
OtherRecords ==
    {Registrant(id, name, roll, <<>>) :
        id \in {Id1, Id2, KeyAbsent},
        name \in {Text1001, NameAnn, Id1},
        roll \in {Text1001, Id1, <<>>}}

\* referred_by: absent, null, empty, an id, a roll or name, a name in another
\* case and with blanks around it, a text that matches nothing
RefValues ==
    {KeyAbsent, Null, <<>>, Id1, Text1001, <<32, 49, 48, 48, 49, 32>>,
     <<65, 78, 78>>, <<97, 110, 110, 32>>, <<32, 122, 32>>}

\* the cell of scripts/generate_verifications.py, lines 264-271
scripts_ref_cell_of(entry, regs) ==
    LET j == IF Truthy(entry.referred_by)
             THEN resolve_referer(entry.referred_by, regs) ELSE 0
    IN  IF j # 0
        THEN AnchorOpen \o id_to_file_get(regs, regs[j].registration_id)
             \o AnchorMid \o regs[j].name
        ELSE EmDash

NotResolved == -1

RefIdle ==
    /\ working_set = <<>> /\ referer = NotResolved
    /\ referred_html = <<>> /\ ref_cell = <<>> /\ scripts_ref_cell = <<>>
    /\ rpc = "idle"

RefInit ==
    /\ \E others \in SeqsUpTo(OtherRecords, MaxOthers), ref \in RefValues :
        working_set = Append(others, Registrant(Id3, NameC, Roll3, ref))
    /\ referer = NotResolved
    /\ referred_html = <<>> /\ ref_cell = <<>> /\ scripts_ref_cell = <<>>
    /\ rpc = "start"

Entry == working_set[Len(working_set)]

Resolve ==
    /\ rpc = "start"
    /\ referer' = resolve_referer(Entry.referred_by, working_set)
    /\ referred_html' = build_ref_section(Entry, working_set)
    /\ ref_cell' = ref_cell_of(Entry, working_set)
    /\ scripts_ref_cell' = scripts_ref_cell_of(Entry, working_set)
    /\ rpc' = "done"
    /\ UNCHANGED working_set
    /\ UNCHANGED notRefVars

RefNext == Resolve

\* ------------------------------------------------------------------------
\* Codec specifications
\* ------------------------------------------------------------------------
CodecIdle ==
    /\ reg_id = <<>> /\ other_id = <<>>
    /\ token = <<>> /\ other_token = <<>> /\ scripts_token = <<>>
    /\ cpc = "idle"

\* one id, encoded by both implementations
CodecInit ==
    /\ reg_id \in CodecIds
    /\ other_id = <<>>
    /\ token = <<>> /\ other_token = <<>> /\ scripts_token = <<>>
    /\ cpc = "input"

\* two ids, encoded by generate_verifications.id_to_filename
PairInit ==
    /\ reg_id \in PairIds
    /\ other_id \in PairIds
    /\ token = <<>> /\ other_token = <<>> /\ scripts_token = <<>>
    /\ cpc = "input"

Encode ==
    /\ cpc = "input"
    /\ token' = id_to_filename(reg_id)
    /\ other_token' = id_to_filename(other_id)
    /\ scripts_token' = scripts_id_to_filename(reg_id)
    /\ cpc' = "encoded"
    /\ UNCHANGED <<reg_id, other_id>>
    /\ UNCHANGED notCodecVars

CodecNext == Encode

\* ------------------------------------------------------------------------
\* make_csv.py: registrants.json to registrants.csv
\* ------------------------------------------------------------------------
MaxRows == 2

\* an object of the input, with the keys make_csv reads (of the five keys
\* get_tshirt_size tries, the items carry the first)
CsvItem(id, name, roll, paid, size) ==
    [registration_id |-> id, name |-> name, roll |-> roll, paid |-> paid,
     tshirt_size |-> size]

Roll123456 == <<49, 50, 51, 52, 53, 54>>
SizeM == <<77>>
CsvItems ==
    {CsvItem(id, NameA, roll, Roll1, size) :
        id \in {KeyAbsent, Null, <<>>, Id1, Id2}, roll \in {Roll1, Roll123456},
        size \in {KeyAbsent, SizeM}}

\* dict.get(key, ""): the default stands in for an absent key only
get_or_empty(v) == IF v = KeyAbsent THEN <<>> ELSE v

\* lines 13-19
get_tshirt_size(item) == IF Truthy(item.tshirt_size) THEN item.tshirt_size ELSE <<>>

\* line 44: roll_full[-5:] if roll_full else ""
roll_last5(roll_full) ==
    IF ~Truthy(roll_full) THEN <<>>
    ELSE IF Len(roll_full) <= 5 THEN roll_full
    ELSE SubSeq(roll_full, Len(roll_full) - 4, Len(roll_full))

\* lines 40-53: the row of one item
csv_row(item) ==
    [registration_id |-> get_or_empty(item.registration_id),
     name |-> get_or_empty(item.name),
     roll_last5 |-> roll_last5(get_or_empty(item.roll)),
     paid |-> get_or_empty(item.paid),
     tshirt_size |-> get_tshirt_size(item)]

\* str < str: by code points, a proper prefix first
StrLess(a, b) ==
    \E k \in 1..(Len(a) + 1) :
        /\ k <= Len(b)
        /\ \A m \in 1..(k - 1) : a[m] = b[m]
        /\ k > Len(a) \/ a[k] < b[k]

\* line 56: key(r1) < key(r2) for key = (id is None, id); two None ids
\* compare equal
key_less(r1, r2) ==
    LET n1 == r1.registration_id = Null
        n2 == r2.registration_id = Null
    IN  \/ ~n1 /\ n2
        \/ ~n1 /\ ~n2 /\ StrLess(r1.registration_id, r2.registration_id)

\* line 56: list.sort is stable: a row goes after the rows with a smaller
\* key and after the earlier rows with an equal key
sort_rows(rows) ==
    LET n == Len(rows)
        before(i) == {j \in 1..n : \/ key_less(rows[j], rows[i])
                                   \/ ~key_less(rows[i], rows[j]) /\ j < i}
    IN  [k \in 1..n |-> rows[CHOOSE i \in 1..n : Cardinality(before(i)) = k - 1]]

\* csv.writer writes None as the empty field
csv_field(v) == IF v = Null THEN <<>> ELSE v

HeaderRow == <<"registration_id", "name", "roll_last5", "paid", "tshirt_size">>

\* lines 60-62: the header, then the rows
csv_lines(rows) ==
    <<HeaderRow>> \o
    [k \in 1..Len(rows) |->
        <<csv_field(rows[k].registration_id), csv_field(rows[k].name),
          csv_field(rows[k].roll_last5), csv_field(rows[k].paid),
          csv_field(rows[k].tshirt_size)>>]

NoCsv == <<"absent">>

CsvIdle ==
    /\ csv_input = [is_file |-> FALSE, data |-> <<>>]
    /\ csv_rows = <<>> /\ csv_output = NoCsv
    /\ csv_pc = "idle" /\ csv_status = -1

CsvInit ==
    /\ csv_input \in {[is_file |-> TRUE, data |-> d] : d \in SeqsUpTo(CsvItems, MaxRows)}
                     \cup {[is_file |-> FALSE, data |-> <<>>]}
    /\ csv_rows = <<>> /\ csv_output = NoCsv
    /\ csv_pc = "load" /\ csv_status = -1

\* lines 29-53
CsvLoad ==
    /\ csv_pc = "load"
    /\ IF ~csv_input.is_file
       THEN /\ csv_status' = 2
            /\ csv_pc' = "exit"
            /\ UNCHANGED csv_rows
       ELSE /\ csv_rows' = [k \in 1..Len(csv_input.data) |-> csv_row(csv_input.data[k])]
            /\ csv_pc' = "sort"
            /\ UNCHANGED csv_status
    /\ UNCHANGED <<csv_input, csv_output>>
    /\ UNCHANGED notCsvVars

\* lines 55-56
CsvSort ==
    /\ csv_pc = "sort"
    /\ csv_rows' = sort_rows(csv_rows)
    /\ csv_pc' = "write"
    /\ UNCHANGED <<csv_input, csv_output, csv_status>>
    /\ UNCHANGED notCsvVars

\* lines 58-65
CsvWrite ==
    /\ csv_pc = "write"
    /\ csv_output' = csv_lines(csv_rows)
    /\ csv_status' = 0
    /\ csv_pc' = "exit"
    /\ UNCHANGED <<csv_input, csv_rows>>
    /\ UNCHANGED notCsvVars

CsvNext == CsvLoad \/ CsvSort \/ CsvWrite

\* ------------------------------------------------------------------------
\* Two instances of the generator at once, each with its own --out, run
\* with --no-static and without Pillow. Both read the same registrants.json
\* and template; every path an instance writes lies under its out_dir. The
\* steps of an instance are the steps of main(); a call of write_if_changed
\* is one step.
\* ------------------------------------------------------------------------
Instances == {1, 2}
OutDirs == {"out1", "out2"}

\* an --out that is ignored: every instance writes to the same directory
out_dir_shared(inst) == "out1"

\* line 949: out_dir = Path(args.out).resolve()
out_dir_of(inst) == inst.out

\* lines 1008-1065 for the k-th registrant of the working set: the
\* directory and the counters afterwards
page_step(dir, regs, k, written, unchanged) ==
    LET entry == regs[k]
        reg_id_ == get_registration_id(entry)
    IN  IF ~Truthy(reg_id_)
        THEN [dir |-> dir, written |-> written, unchanged |-> unchanged]
        ELSE LET content == render_template(entry,
                                meta_rel(id_to_filename(reg_id_), FALSE),
                                build_ref_section(entry, regs))
                 w == write_if_changed(file_at(dir, page_path(reg_id_)), content)
             IN  [dir |-> IF w.wrote THEN put(dir, page_path(reg_id_), w.file) ELSE dir,
                  written |-> count_written(w.ret, written),
                  unchanged |-> count_unchanged(w.ret, unchanged)]

\* lines 1067-1099: the master list
master_step(dir, regs, all, written, unchanged) ==
    LET w == write_if_changed(file_at(dir, MasterListPath), render_master_list(regs, all))
    IN  [dir |-> IF w.wrote THEN put(dir, MasterListPath, w.file) ELSE dir,
         written |-> count_written(w.ret, written),
         unchanged |-> count_unchanged(w.ret, unchanged)]

\* the pages from the k-th on, then the master list
RECURSIVE pages_from(_, _, _, _, _, _)
pages_from(dir, regs, all, k, written, unchanged) ==
    IF k > Len(regs) THEN master_step(dir, regs, all, written, unchanged)
    ELSE LET s == page_step(dir, regs, k, written, unchanged)
         IN  pages_from(s.dir, regs, all, k + 1, s.written, s.unchanged)

\* main() run alone over a directory: the directory and the counters at
\* the end
run_alone(dir, clean, limit, data) ==
    LET all == inject_placeholders(data)
    IN  pages_from(prepare_output(clean, TRUE, dir),
                   filter_registrants(all, <<>>, limit), all, 1, 0, 0)

ConcData ==
    {<<Registrant(Id2, NameA, Roll1, <<>>)>>,
     <<Registrant(Id2, NameA, Roll1, <<>>), Registrant(Id1, NameA, Roll1, Id2)>>}

Instance(out, clean, limit) ==
    [out |-> out, clean |-> clean, limit |-> limit, pc |-> "prepare",
     all_registrants |-> <<>>, registrants |-> <<>>, entry_i |-> 0,
     files_written |-> 0, files_unchanged |-> 0]

ConcIdle ==
    /\ c_data = <<>>
    /\ c_disk = [d \in OutDirs |-> EmptyDir] /\ c_disk0 = c_disk
    /\ c_inst = [i \in Instances |-> [Instance("out1", FALSE, 0) EXCEPT !.pc = "idle"]]

ConcInit ==
    /\ c_data \in ConcData
    /\ c_disk \in [OutDirs -> {EmptyDir, StaleDir}]
    /\ c_disk0 = c_disk
    /\ \E out2 \in OutDirs, clean1 \in BOOLEAN, clean2 \in BOOLEAN, limit2 \in {1, 2} :
        c_inst = [i \in Instances |->
                     IF i = 1 THEN Instance("out1", clean1, 2)
                     ELSE Instance(out2, clean2, limit2)]

\* lines 947-953
ConcPrepare(i) ==
    /\ c_inst[i].pc = "prepare"
    /\ c_disk' = [c_disk EXCEPT ![out_dir_of(c_inst[i])] =
                      prepare_output(c_inst[i].clean, TRUE, @)]
    /\ c_inst' = [c_inst EXCEPT ![i].pc = "load"]
    /\ UNCHANGED <<c_data, c_disk0>>
    /\ UNCHANGED notConcVars

\* lines 955-1006: the inputs are read, the placeholders injected, the
\* working set filtered
ConcLoad(i) ==
    /\ c_inst[i].pc = "load"
    /\ LET all == inject_placeholders(c_data)
           regs == filter_registrants(all, <<>>, c_inst[i].limit)
       IN  c_inst' = [c_inst EXCEPT ![i].all_registrants = all,
                                    ![i].registrants = regs,
                                    ![i].entry_i = 1,
                                    ![i].pc = IF regs = <<>> THEN "master" ELSE "pages"]
    /\ UNCHANGED <<c_data, c_disk, c_disk0>>
    /\ UNCHANGED notConcVars

\* lines 1008-1065: one iteration of the loop
ConcPage(i) ==
    /\ c_inst[i].pc = "pages"
    /\ LET me == c_inst[i]
           s == page_step(c_disk[out_dir_of(me)], me.registrants, me.entry_i,
                          me.files_written, me.files_unchanged)
       IN  /\ c_disk' = [c_disk EXCEPT ![out_dir_of(me)] = s.dir]
           /\ c_inst' = [c_inst EXCEPT ![i].files_written = s.written,
                                       ![i].files_unchanged = s.unchanged,
                                       ![i].entry_i = me.entry_i + 1,
                                       ![i].pc = IF me.entry_i = Len(me.registrants)
                                                 THEN "master" ELSE "pages"]
    /\ UNCHANGED <<c_data, c_disk0>>
    /\ UNCHANGED notConcVars

\* lines 1067-1114
ConcMasterList(i) ==
    /\ c_inst[i].pc = "master"
    /\ LET me == c_inst[i]
           s == master_step(c_disk[out_dir_of(me)], me.registrants, me.all_registrants,
                            me.files_written, me.files_unchanged)
       IN  /\ c_disk' = [c_disk EXCEPT ![out_dir_of(me)] = s.dir]
           /\ c_inst' = [c_inst EXCEPT ![i].files_written = s.written,
                                       ![i].files_unchanged = s.unchanged,
                                       ![i].pc = "done"]
    /\ UNCHANGED <<c_data, c_disk0>>
    /\ UNCHANGED notConcVars

First == ConcPrepare(1) \/ ConcLoad(1) \/ ConcPage(1) \/ ConcMasterList(1)
Second == ConcPrepare(2) \/ ConcLoad(2) \/ ConcPage(2) \/ ConcMasterList(2)
ConcNext == First \/ Second

\* one id, encoded by both implementations
CodecSpecInit == CodecInit /\ EmitIdle /\ BuildIdle /\ RefIdle /\ CsvIdle /\ ConcIdle
CodecSpec == CodecSpecInit /\ [][CodecNext]_vars

\* two ids, encoded by generate_verifications.id_to_filename
PairSpecInit == PairInit /\ EmitIdle /\ BuildIdle /\ RefIdle /\ CsvIdle /\ ConcIdle
PairSpec == PairSpecInit /\ [][CodecNext]_vars

\* one call of write_if_changed beside a concurrent reader
EmitSpecInit == EmitInit /\ CodecIdle /\ BuildIdle /\ RefIdle /\ CsvIdle /\ ConcIdle
EmitSpec == EmitSpecInit /\ [][EmitNext]_vars

\* runs of the generator
SpecInit == BuildInit /\ CodecIdle /\ EmitIdle /\ RefIdle /\ CsvIdle /\ ConcIdle
Spec == SpecInit /\ [][BuildNext]_vars

\* runs of the generator over fewer inputs
CoreSpecInit == CoreInit /\ CodecIdle /\ EmitIdle /\ RefIdle /\ CsvIdle /\ ConcIdle
CoreSpec == CoreSpecInit /\ [][BuildNext]_vars

\* runs of the generator with --ids and --limit
FilterSpecInit == FilterInit /\ CodecIdle /\ EmitIdle /\ RefIdle /\ CsvIdle /\ ConcIdle
FilterSpec == FilterSpecInit /\ [][BuildNext]_vars

\* the referral of one registrant, resolved
RefSpecInit == RefInit /\ CodecIdle /\ EmitIdle /\ BuildIdle /\ CsvIdle /\ ConcIdle
RefSpec == RefSpecInit /\ [][RefNext]_vars

\* runs of the generator with a change of one name between them
IncrSpecInit == IncrInit /\ CodecIdle /\ EmitIdle /\ RefIdle /\ CsvIdle /\ ConcIdle
IncrSpec == IncrSpecInit /\ [][IncrNext]_vars

\* runs of the generator over registrants that refer to one another
LinkSpecInit == LinkInit /\ CodecIdle /\ EmitIdle /\ RefIdle /\ CsvIdle /\ ConcIdle
LinkSpec == LinkSpecInit /\ [][BuildNext]_vars

\* two instances of the generator at once
ConcSpecInit == ConcInit /\ CodecIdle /\ EmitIdle /\ BuildIdle /\ RefIdle /\ CsvIdle
ConcSpec == ConcSpecInit /\ [][ConcNext]_vars

\* one run of make_csv
CsvSpecInit == CsvInit /\ CodecIdle /\ EmitIdle /\ BuildIdle /\ RefIdle /\ ConcIdle
CsvSpec == CsvSpecInit /\ [][CsvNext]_vars

\* ========================================================================
\* Properties
\* ========================================================================

\* ------------------------------------------------------------------------
\* The codec as the specification words it, written without the library
\* calls of the code: sextet k of the bit stream of the UTF-8 bytes, mapped
\* through the URL-safe alphabet, no padding, letters rotated by 13 modulo
\* 26, read backwards.
\* ------------------------------------------------------------------------
RECURSIVE Pow2(_)
Pow2(n) == IF n = 0 THEN 1 ELSE 2 * Pow2(n - 1)

RECURSIVE RefUtf8(_)
RefUtf8(s) ==
    IF s = <<>> THEN <<>>
    ELSE IF Head(s) < 128 THEN <<Head(s)>> \o RefUtf8(Tail(s))
    ELSE <<192 + (Head(s) \div 64), 128 + (Head(s) % 64)>> \o RefUtf8(Tail(s))

\* bit p (0 the most significant bit of the first byte); 0 past the end
RefBit(b, p) ==
    IF p < 8 * Len(b) THEN (b[(p \div 8) + 1] \div Pow2(7 - (p % 8))) % 2 ELSE 0

RefSextet(b, k) ==
    32 * RefBit(b, 6 * k) + 16 * RefBit(b, 6 * k + 1) + 8 * RefBit(b, 6 * k + 2)
    + 4 * RefBit(b, 6 * k + 3) + 2 * RefBit(b, 6 * k + 4) + RefBit(b, 6 * k + 5)

RefUrlSafeChar(i) ==
    IF i < 26 THEN 65 + i
    ELSE IF i < 52 THEN 71 + i
    ELSE IF i < 62 THEN i - 4
    ELSE IF i = 62 THEN CharHyphen
    ELSE CharUnderscore

RefRot13(c) ==
    IF c >= 65 /\ c <= 90 THEN 65 + ((c - 65 + 13) % 26)
    ELSE IF c >= 97 /\ c <= 122 THEN 97 + ((c - 97 + 13) % 26)
    ELSE c

RefCodec(id) ==
    LET b == RefUtf8(id)
        n == (8 * Len(b) + 5) \div 6
    IN  [i \in 1..n |-> RefRot13(RefUrlSafeChar(RefSextet(b, n - i)))]

\* ------------------------------------------------------------------------
\* The steps of the codec undone: reverse, rot13, restore the padding,
\* base64url-decode, UTF-8-decode.  Undecodable yields <<-1>>.
\* ------------------------------------------------------------------------
Undecodable == <<-1>>

RefUrlSafeIndex(c) ==
    IF c >= 65 /\ c <= 90 THEN c - 65
    ELSE IF c >= 97 /\ c <= 122 THEN c - 71
    ELSE IF c >= 48 /\ c <= 57 THEN c + 4
    ELSE IF c = CharHyphen THEN 62
    ELSE IF c = CharUnderscore THEN 63
    ELSE -1

RECURSIVE RefRestorePadding(_)
RefRestorePadding(s) ==
    IF Len(s) % 4 = 0 THEN s ELSE RefRestorePadding(Append(s, CharPad))

\* four characters to three bytes; "xx==" to one byte, "xxx=" to two
RECURSIVE RefB64Decode(_)
RefB64Decode(s) ==
    IF s = <<>> THEN <<>>
    ELSE IF Len(s) < 4 THEN Undecodable
    ELSE LET a == RefUrlSafeIndex(s[1])
             b == RefUrlSafeIndex(s[2])
             c == RefUrlSafeIndex(s[3])
             d == RefUrlSafeIndex(s[4])
             rest == RefB64Decode(SubSeq(s, 5, Len(s)))
         IN  IF a < 0 \/ b < 0 THEN Undecodable
             ELSE IF s[3] = CharPad /\ s[4] = CharPad THEN
                 IF Len(s) = 4 THEN <<(4 * a) + (b \div 16)>> ELSE Undecodable
             ELSE IF c < 0 THEN Undecodable
             ELSE IF s[4] = CharPad THEN
                 IF Len(s) = 4 THEN <<(4 * a) + (b \div 16), (16 * (b % 16)) + (c \div 4)>>
                 ELSE Undecodable
             ELSE IF d < 0 \/ rest = Undecodable THEN Undecodable
             ELSE <<(4 * a) + (b \div 16), (16 * (b % 16)) + (c \div 4), (64 * (c % 4)) + d>> \o rest

RECURSIVE RefUtf8Decode(_)
RefUtf8Decode(b) ==
    IF b = <<>> THEN <<>>
    ELSE IF b = Undecodable THEN Undecodable
    ELSE IF b[1] < 128 THEN
        LET rest == RefUtf8Decode(Tail(b))
        IN  IF rest = Undecodable THEN Undecodable ELSE <<b[1]>> \o rest
    ELSE IF b[1] >= 194 /\ b[1] <= 223 /\ Len(b) >= 2 /\ b[2] >= 128 /\ b[2] <= 191 THEN
        LET rest == RefUtf8Decode(SubSeq(b, 3, Len(b)))
        IN  IF rest = Undecodable THEN Undecodable
            ELSE <<64 * (b[1] - 192) + (b[2] - 128)>> \o rest
    ELSE Undecodable

RefInverse(tok) ==
    LET back == [i \in 1..Len(tok) |-> RefRot13(tok[Len(tok) + 1 - i])]
    IN  RefUtf8Decode(RefB64Decode(RefRestorePadding(back)))

AllExpected(id) == \A i \in 1..Len(id) : IsExpectedChar(id[i])

\* C2: for every id made of uppercase letters, digits and hyphens, the token
\* id_to_filename returns contains none of '/', '+' and '='.
C2_FilenameSafe ==
    (cpc = "encoded" /\ AllExpected(reg_id))
        => \A i \in 1..Len(token) : token[i] \notin {CharSlash, CharPlus, CharPad}

\* an id of the expected alphabet whose Base64 form carries padding was encoded
C2_Witness ==
    /\ cpc = "encoded"
    /\ AllExpected(reg_id)
    /\ Len(reg_id) % 3 = 1
    /\ Len(token) = 2

\* C3: id_to_filename has no collisions: two distinct ids (in particular two
\* distinct ids of the pattern XX-Y-NNNN) get different tokens.
C3_NoCollision ==
    (cpc = "encoded" /\ reg_id # other_id) => token # other_token

\* two distinct ids of the pattern XX-Y-NNNN that differ in the last digit only
C3_Witness ==
    /\ cpc = "encoded"
    /\ reg_id = <<83, 67, 45, 66, 45, 48, 48, 48, 49>>
    /\ other_id = <<83, 67, 45, 66, 45, 48, 48, 48, 57>>
    /\ token # other_token

\* C4: id_to_filename(id) is reverse(rot13(strip(urlsafe_base64(utf8(id))))),
\* rot13 rotating letters only and wrapping inside A-Z and inside a-z, and the
\* implementation under scripts/ returns the same token.
C4_CodecAlgorithm ==
    cpc = "encoded" => (token = RefCodec(reg_id) /\ scripts_token = token)

\* an id whose Base64 form "Pz8_" holds a URL-safe substitute, two letters that
\* wrap around under rot13 and a digit was encoded: "???" gives "_8mC"
C4_Witness ==
    /\ cpc = "encoded"
    /\ reg_id = <<63, 63, 63>>
    /\ token = <<CharUnderscore, 56, 109, 67>>
    /\ scripts_token = token

\* C5: the codec is undone by reversing its steps: for every non-empty id,
\* reversing the token, applying rot13, restoring the padding and
\* base64url-decoding gives the id back.
C5_Invertible ==
    (cpc = "encoded" /\ reg_id # <<>>) => RefInverse(token) = reg_id

\* a two-character id of three UTF-8 bytes was encoded and decoded back
C5_Witness ==
    /\ cpc = "encoded"
    /\ reg_id = <<65, 233>>
    /\ Len(token) = 4
    /\ RefInverse(token) = reg_id

\* ------------------------------------------------------------------------
\* write_if_changed
\* ------------------------------------------------------------------------
\* the step-by-step call of generate_verifications.py ends as the one-step
\* write_if_changed says, whenever the filesystem permits the write
EmitStepsAgree ==
    (e_pc \in {"returned", "raised"} /\ e_impl = "main" /\ e_writable)
        => LET r == write_if_changed(e_file0, e_content)
           IN  /\ r.file = e_file
               /\ r.ret <=> (e_ret = "True")
               /\ r.warned <=> (\E i \in 1..Len(e_console) : e_console[i] = "warning")

EmitFinished == e_pc \in {"returned", "raised"}

Printed(msg) == \E i \in 1..Len(e_console) : e_console[i] = msg

\* C6: if the destination exists and its on-disk content is byte-for-byte
\* equal to the new content, write_if_changed performs no write, leaves the
\* file unchanged and returns False.
C6_EqualIsUnchanged ==
    (e_pc # "idle" /\ e_writable /\ e_file0.present /\ e_file0.readable
     /\ e_file0.bytes = write_text_bytes(e_content))
        => /\ e_file = e_file0
           /\ EmitFinished => (e_ret = "False" /\ ~Printed("wrote"))

\* C7: when the destination is absent, unreadable or differs from the new
\* content, write_if_changed of generate_verifications.py creates the missing
\* ancestors, writes, returns True, and the file then holds the new content
\* (the filesystem permitting the write).
C7_DiffersIsWritten ==
    (EmitFinished /\ e_impl = "main" /\ e_writable
     /\ (~e_file0.present \/ read_raises(e_file0)
         \/ e_file0.bytes # write_text_bytes(e_content)))
        => /\ e_ret = "True"
           /\ e_parent
           /\ e_file.present
           /\ e_file.bytes = write_text_bytes(e_content)

\* C8: a read error on the existing destination never aborts
\* write_if_changed: a warning is surfaced, the new content is written and
\* the call returns True (the filesystem permitting the write).
C8_ReadErrorWarnsAndWrites ==
    (EmitFinished /\ read_raises(e_file0) /\ e_writable)
        => /\ Printed("warning")
           /\ e_ret = "True"
           /\ e_file.bytes = write_text_bytes(e_content)

\* C9: while write_if_changed of generate_verifications.py overwrites an
\* existing destination, a concurrent reader of the path sees the complete
\* previous content or the complete new content, never an empty or partially
\* written file.
C9_AtomicOverwrite ==
    (e_impl = "main" /\ e_file0.present /\ e_file0.readable)
        => \/ e_observed = NotObserved
           \/ e_observed = e_file0.bytes
           \/ e_observed = write_text_bytes(e_content)

\* ------------------------------------------------------------------------
\* The build
\* ------------------------------------------------------------------------
\* the input keeps the data invariant: no two objects share a registration_id
UniqueIds(data) ==
    \A i, j \in 1..Len(data) :
        (i # j /\ Truthy(data[i].registration_id))
            => data[i].registration_id # data[j].registration_id

\* two runs of the full generation have completed, the second over what the
\* first left, without --clean
TwoFullRuns ==
    /\ Len(history) = 2
    /\ history[1].outcome = "done" /\ history[2].outcome = "done"
    /\ ~args.clean /\ ~args.master_only /\ args.limit = 0 /\ args.ids = <<>>
    /\ UniqueIds(reg_json.data)

\* C10: when the full generation has run twice in succession over the same
\* registrants, template and output directory, without --clean, the second
\* run ends with files_written = 0 and leaves the output directory with the
\* contents the first run left.
C10_IdempotentBuild ==
    TwoFullRuns =>
        /\ history[2].files_written = 0
        /\ history[2].out_files = history[1].out_files

\* no name of the input holds a carriage return, so that what a run writes
\* reads back as it was written
HasCarriageReturn(t) == \E i \in 1..Len(t) : t[i] = CharCR
NoCarriageReturnInput ==
    \A i \in 1..Len(reg_json.data) : ~HasCarriageReturn(reg_json.data[i].name)

\* two runs have completed, the second over what the first left
TwoRuns ==
    /\ Len(history) = 2
    /\ history[1].outcome = "done" /\ history[2].outcome = "done"
    /\ ~args.clean

\* C11: when the generator has run twice over the same inputs, every write of
\* the second run (pages, preview images, master list, static copies) was to
\* a path that held other content or nothing.
C11_NoRedundantWrites ==
    (TwoRuns /\ NoCarriageReturnInput /\ UniqueIds(reg_json.data)) =>
        \A k \in 1..Len(history[2].written_paths) : history[2].written_paths[k].differed

\* the positions at which the registrants.json of the second run differs from
\* that of the first
ChangedAt ==
    {i \in 1..Len(history[1].reg_json) : history[2].reg_json[i] # history[1].reg_json[i]}

\* the paths of the per-registrant pages that a run wrote
PagesOf(regs) ==
    {page_path(get_registration_id(regs[i])) :
        i \in {j \in 1..Len(regs) : Truthy(get_registration_id(regs[j]))}}
WrittenPaths(h) == {h.written_paths[k].path : k \in 1..Len(h.written_paths)}
PagesWritten(h) == WrittenPaths(h) \cap PagesOf(h.registrants)

\* a completed build, then exactly one registrant (one with an id, the ids
\* being unique) renamed, then a completed build
OneNameChanged ==
    /\ TwoRuns
    /\ UniqueIds(history[1].reg_json)
    /\ Cardinality(ChangedAt) = 1
    /\ \A i \in ChangedAt : Truthy(history[1].reg_json[i].registration_id)

\* C12: after a completed build, when exactly one registrant's name is changed
\* and the generator is run again, no per-registrant page but that
\* registrant's is rewritten, and if that registrant is in the working set of
\* a run that generates pages, its page and master_list.html are rewritten.
C12_IncrementalCorrectness ==
    OneNameChanged =>
        \A i \in ChangedAt :
            LET id == history[1].reg_json[i].registration_id
            IN  /\ PagesWritten(history[2]) \subseteq {page_path(id)}
                /\ (~args.master_only /\ in_id_to_file(history[2].registrants, id))
                      => /\ page_path(id) \in PagesWritten(history[2])
                         /\ MasterListPath \in WrittenPaths(history[2])

\* the calls of write_if_changed a completed run makes: one for each
\* registrant of the working set that has an id, unless --master-only, and
\* one for master_list.html
CallsOf(h) ==
    (IF args.master_only THEN 0
     ELSE Cardinality({i \in 1..Len(h.registrants) :
                          Truthy(get_registration_id(h.registrants[i]))})) + 1

\* the writes write_if_changed made during a run
EmitterWrites(h) ==
    Cardinality({k \in 1..Len(h.written_paths) : h.written_paths[k].by = "write_if_changed"})

TallyAtEnd ==
    \A k \in 1..Len(history) :
        history[k].outcome = "done" =>
            /\ history[k].files_written + history[k].files_unchanged = CallsOf(history[k])
            /\ history[k].files_written = EmitterWrites(history[k])
            /\ history[k].files_unchanged = CallsOf(history[k]) - EmitterWrites(history[k])

TallyGrows ==
    pc' \notin {"prepare"} =>
        /\ files_written' >= files_written
        /\ files_unchanged' >= files_unchanged

\* C13: at the end of a completed run files_written + files_unchanged is the
\* number of calls of write_if_changed, files_written is the number of those
\* calls that wrote and files_unchanged the number that did not; during a run
\* neither counter ever decreases.
C13_TallyAccurate == []TallyAtEnd /\ [][TallyGrows]_vars

\* a second run has completed that wrote some pages and left others unchanged
C13_Witness ==
    /\ Len(history) = 2
    /\ history[2].outcome = "done"
    /\ history[2].files_written > 0
    /\ history[2].files_unchanged > 1

\* ------------------------------------------------------------------------
\* Referral resolution
\* ------------------------------------------------------------------------
\* the trimmed referred_by of the registrant whose referral is resolved
RefKey == strip(Entry.referred_by)

MatchesId(i) ==
    Truthy(working_set[i].registration_id) /\ working_set[i].registration_id = RefKey
MatchesRoll(i) == working_set[i].roll # <<>> /\ working_set[i].roll = RefKey
MatchesName(i) ==
    working_set[i].name # <<>> /\ lower(strip(working_set[i].name)) = lower(RefKey)
Positions == 1..Len(working_set)

\* C14: a non-empty referred_by resolves to a registrant whose registration_id
\* equals the trimmed value when there is one; otherwise to one whose roll
\* equals it when there is one; otherwise to one whose trimmed name equals it
\* without regard to case when there is one; otherwise to none.
C14_ResolutionOrder ==
    (rpc = "done" /\ Truthy(Entry.referred_by)) =>
        IF \E i \in Positions : MatchesId(i)
        THEN referer \in Positions /\ MatchesId(referer)
        ELSE IF \E i \in Positions : MatchesRoll(i)
        THEN referer \in Positions /\ MatchesRoll(referer)
        ELSE IF \E i \in Positions : MatchesName(i)
        THEN referer \in Positions /\ MatchesName(referer)
        ELSE referer = 0

\* A (SC-B-0001, roll "1001"), B (SC-B-0002, name "1001") and a registrant
\* with referred_by "1001": the referer is A
C14_Witness ==
    /\ rpc = "done"
    /\ Len(working_set) = 3
    /\ working_set[1].registration_id = Id1 /\ working_set[1].roll = Text1001
    /\ working_set[1].name = NameAnn
    /\ working_set[2].registration_id = Id2 /\ working_set[2].name = Text1001
    /\ working_set[2].roll = <<>>
    /\ Entry.referred_by = Text1001
    /\ referer = 1

NoMatch == \A i \in Positions : ~MatchesId(i) /\ ~MatchesRoll(i) /\ ~MatchesName(i)

\* C15: a non-empty referred_by that matches no registrant by id, roll or
\* name resolves to none, and the page and the master-list row (of both
\* generators) show the referred_by text as it is, in a span and not a link.
C15_UnresolvedShownVerbatim ==
    (rpc = "done" /\ Truthy(Entry.referred_by) /\ NoMatch) =>
        /\ referer = 0
        /\ referred_html = SpanOpen \o Entry.referred_by
        /\ ref_cell = SpanOpen \o Entry.referred_by
        /\ scripts_ref_cell = SpanOpen \o Entry.referred_by

\* ------------------------------------------------------------------------
\* Registrants without a registration_id
\* ------------------------------------------------------------------------
\* the positions of the objects of registrants.json that lack an id (the key
\* absent, null or empty), and of those that have one
IdLess(data) == {i \in 1..Len(data) : ~Truthy(data[i].registration_id)}
WithId(data) == {i \in 1..Len(data) : Truthy(data[i].registration_id)}

\* a run over the whole of registrants.json that generates pages
WholeRun(h) ==
    /\ h.outcome # "returned"
    /\ ~args.master_only /\ args.ids = <<>> /\ args.limit = 0

\* the page of id lies in the output directory as a run left it, and is no
\* leftover of an earlier build
HasPage(h, id) ==
    /\ page_path(id) \in DOMAIN h.out_files
    /\ h.out_files[page_path(id)].bytes # StaleBytes

\* C16: a run whose input holds registrants without registration_id writes no
\* page and no preview image for them, and its per-registrant pass goes on:
\* every registrant with an id has its page after the run.
C16_SkipAndContinue ==
    \A k \in 1..Len(history) :
        (WholeRun(history[k]) /\ IdLess(history[k].reg_json) # {}) =>
            /\ page_path(<<>>) \notin WrittenPaths(history[k])
            /\ meta_path(<<>>) \notin WrittenPaths(history[k])
            /\ \A j \in WithId(history[k].reg_json) :
                   HasPage(history[k], history[k].reg_json[j].registration_id)

\* the rows of a master list: each ends with RowEnd, after the statistics
\* that end with one too
RowsIn(bytes) == Cardinality({i \in 1..Len(bytes) : bytes[i] = RowEnd[1]}) - 1

\* C17: a run whose working set holds registrants without registration_id
\* does not raise, reaches its summary, writes master_list.html, and the
\* master list has a row for each registrant with an id and no other row.
C17_IdLessNotInMasterList ==
    \A k \in 1..Len(history) :
        (/\ history[k].outcome # "returned"
         /\ args.ids = <<>> /\ args.limit = 0
         /\ IdLess(history[k].reg_json) # {}) =>
            /\ history[k].outcome = "done"
            /\ MasterListPath \in DOMAIN history[k].out_files
            /\ RowsIn(history[k].out_files[MasterListPath].bytes)
                   = Cardinality(WithId(history[k].reg_json))

\* the registrants of a run's working set that lack an id
IdLessIn(regs) == {i \in 1..Len(regs) : ~Truthy(get_registration_id(regs[i]))}

\* C18: at the end of a completed run the number of skips the run has
\* reported equals the number of registrants of the working set without
\* registration_id.
C18_SkippedCount ==
    \A k \in 1..Len(history) :
        history[k].outcome = "done" =>
            history[k].skip_warnings = Cardinality(IdLessIn(history[k].registrants))

\* ------------------------------------------------------------------------
\* Placeholders
\* ------------------------------------------------------------------------
\* main has injected the placeholders into all_registrants
Injected == pc \in {"filter", "pages", "master", "static", "summary", "done", "raised"}

\* the positions of all_registrants behind the input: the injected entries
InjectedAt == (Len(reg_json.data) + 1)..Len(all_registrants)

CarriedByInput(id) ==
    \E i \in 1..Len(reg_json.data) : reg_json.data[i].registration_id = id

\* C19: after injection all_registrants is the input followed by synthetic
\* entries with is_placeholder true: exactly one for each id of
\* PLACEHOLDER_IDS that no input registrant carries, none for an id the input
\* carries; every id of PLACEHOLDER_IDS occurs in the list.
C19_PlaceholderInjection ==
    Injected =>
        /\ Len(all_registrants) >= Len(reg_json.data)
        /\ SubSeq(all_registrants, 1, Len(reg_json.data)) = reg_json.data
        /\ \A j \in InjectedAt :
               /\ all_registrants[j].is_placeholder
               /\ \E k \in 1..Len(PLACEHOLDER_IDS) :
                      all_registrants[j] = PlaceholderEntry(PLACEHOLDER_IDS[k])
        /\ \A k \in 1..Len(PLACEHOLDER_IDS) :
               /\ Cardinality({j \in InjectedAt :
                                  all_registrants[j].registration_id = PLACEHOLDER_IDS[k]})
                      = IF CarriedByInput(PLACEHOLDER_IDS[k]) THEN 0 ELSE 1
               /\ \E j \in 1..Len(all_registrants) :
                      all_registrants[j].registration_id = PLACEHOLDER_IDS[k]

\* the input carries SC-B-0001, and the five other placeholders were injected
C19_Witness ==
    /\ pc = "filter"
    /\ CarriedByInput(Id1)
    /\ Len(all_registrants) = Len(reg_json.data) + 5
    /\ \A j \in InjectedAt : all_registrants[j].registration_id # Id1

\* the ids of the placeholders a run injected
InjectedIds(h) ==
    {PLACEHOLDER_IDS[k] : k \in {n \in 1..Len(PLACEHOLDER_IDS) :
        \A i \in 1..Len(h.reg_json) : h.reg_json[i].registration_id # PLACEHOLDER_IDS[n]}}

\* C20: after a completed run that generates per-registrant pages, whatever
\* --limit and --ids are, every injected placeholder has its page, and the
\* master list has a row for each registrant of the working set that is no
\* placeholder and no row for a placeholder.
C20_PlaceholdersGetPages ==
    \A k \in 1..Len(history) :
        (history[k].outcome = "done" /\ ~args.master_only) =>
            /\ \A id \in InjectedIds(history[k]) : HasPage(history[k], id)
            /\ RowsIn(history[k].out_files[MasterListPath].bytes)
                   = Cardinality({i \in 1..Len(history[k].registrants) :
                                     ~history[k].registrants[i].is_placeholder})

\* ------------------------------------------------------------------------
\* The working set
\* ------------------------------------------------------------------------
\* main has filtered: registrants is the working set of the run
Filtered == pc \in {"pages", "master", "static", "summary", "done"}

\* C21: once a run has loaded, injected and filtered, no two registrants of
\* its working set carry the same non-empty registration_id, so no two are
\* emitted to the same output path.
C21_UniqueInWorkingSet ==
    Filtered =>
        \A i, j \in 1..Len(registrants) :
            (i # j /\ Truthy(get_registration_id(registrants[i])))
                => /\ get_registration_id(registrants[i]) # get_registration_id(registrants[j])
                   /\ page_path(get_registration_id(registrants[i]))
                          # page_path(get_registration_id(registrants[j]))

\* the ids an --ids list names: its entries without the blanks around them,
\* an entry of blanks naming none
Wanted == {strip(args.ids[k]) : k \in 1..Len(args.ids)} \ {<<>>}

\* the positions of all_registrants whose registration_id the list names
KeptAt == {i \in 1..Len(all_registrants) : all_registrants[i].registration_id \in Wanted}

\* the n-th position of KeptAt
NthKept(n) == CHOOSE i \in KeptAt : Cardinality({j \in KeptAt : j < i}) = n - 1

Smaller(a, b) == IF a < b THEN a ELSE b

\* C22: with a non-empty --ids list the working set is the registrants whose
\* registration_id the list names, in the order of the input, whatever
\* --limit is; without ids a positive --limit N keeps the first N
\* registrants; otherwise the working set is the whole list.
C22_FilterPrecedence ==
    Filtered =>
        IF args.ids # <<>>
        THEN /\ Len(registrants) = Cardinality(KeptAt)
             /\ \A n \in 1..Len(registrants) : registrants[n] = all_registrants[NthKept(n)]
        ELSE IF args.limit > 0
        THEN /\ Len(registrants) = Smaller(args.limit, Len(all_registrants))
             /\ \A n \in 1..Len(registrants) : registrants[n] = all_registrants[n]
        ELSE registrants = all_registrants

\* --ids names two registrants of the input, one with blanks around the id,
\* and --limit 1 is given as well: both are in the working set, in input order
C22_Witness ==
    /\ Filtered
    /\ Len(args.ids) = 2 /\ args.limit = 1
    /\ Len(registrants) = 2
    /\ registrants[1].registration_id = Id1 /\ registrants[2].registration_id = Id2

\* ------------------------------------------------------------------------
\* The output directory
\* ------------------------------------------------------------------------
\* the run has prepared its output directory
Prepared == pc \in {"load", "inject", "filter", "pages", "master", "static", "summary",
                    "done", "returned", "raised"}

\* C23: with --clean, from the preparation of the output directory on, the
\* directory holds only files that this run has written: what was there
\* before is gone before the first write, and after a completed run the
\* directory holds only what the run produced.
C23_CleanRemovesTree ==
    (args.clean /\ Prepared) =>
        /\ DOMAIN out_files = {written_paths[k].path : k \in 1..Len(written_paths)}
        /\ written_paths = <<>> => out_files = EmptyDir

\* a second run with --clean has removed what the first run produced and
\* has written nothing yet
C23_Witness ==
    /\ args.clean /\ run = 2 /\ pc = "load"
    /\ history[1].outcome = "done"
    /\ history[1].out_files # EmptyDir
    /\ out_files = EmptyDir

\* C29: without --clean no step of a run removes a file of the output
\* directory: every path present before a step is present after it, so a
\* page left by an earlier build for a registrant that is no longer in the
\* input is still there after any number of runs.
C29_NeverDeletes ==
    [][(~args.clean) => (\A p \in DOMAIN out_files : p \in DOMAIN out_files')]_vars

\* two completed runs without --clean over an input that lacks the
\* registrant of the leftover page: the page is still there, untouched
C29_Witness ==
    /\ ~args.clean /\ pc = "done" /\ Len(history) = 2
    /\ history[1].outcome = "done"
    /\ history[2].out_files # EmptyDir
    /\ history[2].written_paths # <<>>
    /\ \A i \in 1..Len(history[2].registrants) :
           history[2].registrants[i].registration_id # Id2
    /\ file_at(out_files, page_path(Id2)) = FileOf(StaleBytes)

\* a required input file is missing: the run stops at the input check
MissingInput == ~reg_json.is_file \/ ~template_file

\* C30: a run that stops because a required input file is missing writes
\* no output file and leaves the files of the output directory as they
\* were, with and without --clean.
C30_MissingInputLeavesOutput ==
    [][MissingInput => out_files' = out_files]_vars

\* lines 1116-1117 (scripts copy 280-281): main() is called bare, so the
\* process ends with status 0 when main returns, also by the early return
\* of the input check, and with status 1 when an exception escapes
exit_status(outcome) == IF outcome = "raised" THEN 1 ELSE 0

\* the run is over
Ended == pc \in {"done", "returned", "raised"}

\* C24: a run that finds a required input file missing ends with a nonzero
\* process exit status.
C24_MissingInputExitsNonzero ==
    (Ended /\ MissingInput) => exit_status(pc) # 0

\* ------------------------------------------------------------------------
\* Write failures of the emitter
\* ------------------------------------------------------------------------
\* a caller that takes a failed call for "not written"
caller_tally_swallowed(ret) ==
    <<count_written(ret = "True", 0), count_unchanged(ret = "True", 0)>>

\* lines 1061-1064 around one call: what the call adds to files_written and
\* files_unchanged. No try encloses the call in main, so an exception
\* leaves the if statement before either counter is touched.
caller_tally(ret) ==
    IF ret = "raised" THEN <<0, 0>>
    ELSE <<count_written(ret = "True", 0), count_unchanged(ret = "True", 0)>>

\* the call is over
CallEnded == e_pc \in {"returned", "raised"}

\* the call had to write (the file was not confirmed unchanged) and the
\* destination could not be written
WriteFailed == CallEnded /\ ~e_writable /\ ~confirms_unchanged(e_file0, e_content)

\* C25: when the write of write_if_changed fails the error reaches the
\* caller: the call returns neither True nor False, prints neither "Wrote"
\* nor "Unchanged", and the caller counts the file neither as written nor
\* as unchanged.
C25_WriteFailurePropagates ==
    WriteFailed =>
        /\ e_pc = "raised" /\ e_ret = "raised"
        /\ \A k \in 1..Len(e_console) : e_console[k] \notin {"wrote", "unchanged"}
        /\ caller_tally(e_ret) = <<0, 0>>

\* the write of a differing content over an existing file has failed
C25_Witness ==
    /\ WriteFailed /\ e_impl = "main"
    /\ e_file0.present /\ e_file0.readable
    /\ e_ret = "raised"

\* ------------------------------------------------------------------------
\* make_csv
\* ------------------------------------------------------------------------
\* the registration_id column of the k-th data line of the output
IdColumn(k) == csv_output[k + 1][1]

\* C27: make_csv writes one row for each object of the input, the rows with
\* a registration_id in ascending order of it and the rows whose
\* registration_id is empty after all of them.
C27_CsvSortedEmptyLast ==
    (csv_pc = "exit" /\ csv_status = 0) =>
        /\ Len(csv_output) = Len(csv_input.data) + 1
        /\ \A i, j \in 1..Len(csv_input.data) :
               i < j =>
                   /\ IdColumn(i) = <<>> => IdColumn(j) = <<>>
                   /\ (IdColumn(i) # <<>> /\ IdColumn(j) # <<>>)
                          => ~StrLess(IdColumn(j), IdColumn(i))

\* ------------------------------------------------------------------------
\* Referral links
\* ------------------------------------------------------------------------
\* the n-th element of a set of positions
NthOf(P, n) == CHOOSE i \in P : Cardinality({j \in P : j < i}) = n - 1

\* the n-th piece of a text cut at every occurrence of the character c
Cut(text, c, n) ==
    LET P == {i \in 1..Len(text) : text[i] = c}
        first == IF n = 1 THEN 1 ELSE NthOf(P, n - 1) + 1
        last == IF n > Cardinality(P) THEN Len(text) ELSE NthOf(P, n) - 1
    IN  SubSeq(text, first, last)

\* the referred-by section of a page and the referred-by cell of the k-th
\* row of a master list, as they stand in the written files
SectionOf(page) == Cut(page, Sep[1], 6)
CellOf(master, k) == Cut(Cut(master, RowEnd[1], k + 1), Sep[1], 5)

\* a piece of output that is a link, and the href of the link
IsLink(html) == Len(html) >= 3 /\ SubSeq(html, 1, 3) = AnchorOpen
HrefOf(html) ==
    SubSeq(html, 4, NthOf({i \in 1..Len(html) : html[i] = AnchorMid[1]}, 1) - 1)

\* the registrants of the working set that a referred_by value names: by
\* id, by roll or by name
NamedBy(ref) ==
    LET v == strip(ref)
    IN  {j \in 1..Len(registrants) :
            \/ Truthy(registrants[j].registration_id) /\ registrants[j].registration_id = v
            \/ Truthy(registrants[j].roll) /\ registrants[j].roll = v
            \/ Truthy(registrants[j].name) /\ lower(strip(registrants[j].name)) = lower(v)}

\* what a link to a registrant of the working set points at
TargetOf(j) ==
    IF Truthy(get_registration_id(registrants[j]))
    THEN page_path(get_registration_id(registrants[j]))
    ELSE Hash

\* a piece of output of a registrant with the given referred_by is sound:
\* a link only when the value names a registrant of the working set, and
\* then a link to the page of one it names, or to "#" if that one has no id
SoundLink(html, ref) ==
    /\ IsLink(html) <=> (Truthy(ref) /\ NamedBy(ref) # {})
    /\ IsLink(html) => \E j \in NamedBy(ref) : HrefOf(html) = TargetOf(j)

\* the page of the registrant the loop has just handled
JustPaged ==
    /\ pc \in {"pages", "master"} /\ entry_i > 1
    /\ Truthy(get_registration_id(registrants[entry_i - 1]))

\* the position in the working set of the k-th row of the master list
RowOwner(k) == NthOf({i \in 1..Len(registrants) : ~registrants[i].is_placeholder}, k)

\* C28: the referred-by link of a page and of a master-list row points at
\* the page of a registrant of the filtered working set that the
\* referred_by value names, or at "#" when that registrant has no id; a
\* value that names no registrant of the working set, also one that names
\* a registrant the filter left out, is not linked.
C28_NoDanglingReferral ==
    /\ JustPaged =>
           SoundLink(SectionOf(out_files[page_path(
                         get_registration_id(registrants[entry_i - 1]))].bytes),
                     registrants[entry_i - 1].referred_by)
    /\ pc = "done" =>
           \A k \in 1..RowsIn(out_files[MasterListPath].bytes) :
               Truthy(get_registration_id(registrants[RowOwner(k)])) =>
                   SoundLink(CellOf(out_files[MasterListPath].bytes, k),
                             registrants[RowOwner(k)].referred_by)

\* a page that links to "#": the referer named has no id
C28_Witness ==
    /\ JustPaged
    /\ registrants[entry_i - 1].referred_by = NameCee
    /\ HrefOf(SectionOf(out_files[page_path(Id1)].bytes)) = Hash

\* ------------------------------------------------------------------------
\* Instances run at once
\* ------------------------------------------------------------------------
\* both instances have ended
BothDone == \A i \in Instances : c_inst[i].pc = "done"

\* what instance i leaves when it runs alone over its directory as it was
AloneOf(i) ==
    run_alone(c_disk0[c_inst[i].out], c_inst[i].clean, c_inst[i].limit, c_data)

\* instance i ended as it would have alone
AsAlone(i) ==
    /\ c_disk[c_inst[i].out] = AloneOf(i).dir
    /\ c_inst[i].files_written = AloneOf(i).written
    /\ c_inst[i].files_unchanged = AloneOf(i).unchanged

\* C26: two instances run at once with different output directories end,
\* whatever the order of their steps, each with the output files and the
\* files_written and files_unchanged it has when it runs alone.
C26_DisjointInstancesSafe ==
    (BothDone /\ c_inst[1].out # c_inst[2].out) => \A i \in Instances : AsAlone(i)

\* both ended, each in its own directory, one having cleaned a directory
\* that held a page, each having written its pages
C26_Witness ==
    /\ BothDone /\ c_inst[1].out # c_inst[2].out
    /\ c_inst[1].clean /\ c_disk0["out1"] = StaleDir /\ c_disk0["out2"] = StaleDir
    /\ c_inst[1].files_written = 3 /\ c_inst[2].files_written > 0

====
